---------------------------- MODULE Spec2Model ----------------------------
(***************************************************************************)
(* Model of the map performance layer of PROJECT-SHAKTI:                   *)
(*   - the two module loaders (LazyLoader, OptimizedMapApp.loadModule),    *)
(*   - CacheManager (three TTL stores),                                    *)
(*   - BatchProcessor (chunked processing with yields),                    *)
(*   - OptimizedMapRenderer and GeointMapApp visualization switching.      *)
(*   - PerformanceMonitor, the display cap with _samplePoints,             *)
(*   - generateMap of MapApp, FastMapApp and GeointMapApp, and the         *)
(*     geofences of GeointMapApp,                                          *)
(*   - the ShaktiChatbot state space and handleSend, the generate button,  *)
(*     MapTileCache of the service worker, and addTrajectoryLayer.         *)
(* The host is a single-threaded event loop: an async function runs to its *)
(* next await, promise reactions run FIFO as microtasks, timers and DOM    *)
(* events run as tasks once the microtask queue is empty.                  *)
(***************************************************************************)
EXTENDS Integers, Sequences, FiniteSets, TLC

VARIABLES
    \* ---- module loaders
    loadedModules,      \* LazyLoader.loadedModules : Set of names
    loadingPromises,    \* LazyLoader.loadingPromises : Map name -> promise
    modules,            \* OptimizedMapApp.modules : Map name -> module
    modulePromises,     \* OptimizedMapApp.modulePromises : Map name -> promise
    promises,           \* every promise made by _loadModuleFile / loadModuleScript
    loadCalls,          \* every loadModule call and the state of its own promise
    loaderMicro,        \* microtask queue: calls whose continuation is queued
    \* ---- CacheManager
    now,                \* Date.now()
    ticks,              \* how many times the clock has advanced
    dataCache,          \* CacheManager.dataCache : Map key -> data object
    objTimestamp,       \* the .timestamp property of each data object
    mapCache,           \* CacheManager.mapCache : Map key -> {instance, timestamp}
    visualizationCache, \* CacheManager.visualizationCache : Map key -> {data, timestamp}
    cacheOps,           \* how many cache calls were made
    lastCacheOp,        \* the last cache call and what it returned
    lastSet,            \* per store and key: time and value of the last set
    \* ---- BatchProcessor: one processBatch / processLargeDataset call
    bEntry,             \* which method was called
    bItems,             \* items / data
    bOnProgress,        \* whether options.onProgress was supplied
    bChunks,            \* chunks
    bResults,           \* results
    bI,                 \* the loop index i
    bChunkResults,      \* what processor(chunk) returned, being awaited
    bPc,                \* where the call is suspended
    bYields,            \* how many times _yieldToMainThread resumed
    bProgress,          \* the onProgress invocations, in order
    bOut,               \* the value the call resolved with
    bFailAt,            \* the chunk indices on which the processor throws
    bCalls,             \* how many times the processor was called
    bError,             \* what the call was rejected with
    bSinceYield,        \* processor calls started since the last yield resumed
    \* ---- OptimizedMapRenderer and its rendering backend
    rMap,               \* this.map: "null", or a backend map that is
                        \* "loading", "ready" (loaded) or "errored"
    rDisposed,          \* dispose() was called
    disposeCalls,       \* how many times dispose() was called
    initState,          \* the initialize() call: "idle", "awaitLoad",
                        \* "resolved" or "rejected"
    isMonitoring,       \* performanceMonitor.isMonitoring
    memoryIntervals,    \* setInterval timers of monitorMemory that are active
    mapLayers,          \* the backend's layers (ids)
    mapSources,         \* the backend's sources: id -> what its data was built from
    rLayers,            \* this.layers : Map layerId -> visualization
    renderCalls,        \* every renderVisualization call and where it stands
    renderMicro,        \* microtask queue: <<"resume", call>> or <<"caller", call>>
    renderTimers,       \* setTimeout(resolve, 0) timers pending, FIFO
    \* ---- generateMap of the map applications
    gApp,               \* the application of the last generateMap call
    gFetched,           \* data.points of the response it fetched
    gOutcome,           \* "idle", "rendered" or "error" (an error was shown)
    gPipeline,          \* the fetched points last handed to the map
    gCached,            \* MapApp.dataCache: the data stored for the data type
    gCalls,             \* how many generateMap calls were made
    gMap,               \* this.map is set
    gDisplayed,         \* what the map container shows: "placeholder", "map",
                        \* "demoMap" or "loadingOverlay"
    gAttempted,         \* the last call handed its data to the map
    \* ---- PerformanceMonitor (with isMonitoring and memoryIntervals above)
    perfNow,            \* performance.now(), in ms
    frameCount,         \* this.frameCount
    lastTime,           \* this.lastTime
    metricsFps,         \* this.metrics.fps
    metricsMemory,      \* this.metrics.memory
    fpsHistory,         \* this.fpsHistory
    rafCallbacks,       \* requestAnimationFrame callbacks of monitorFPS pending
    frameIncrements,    \* how many times the last frame ran frameCount++
    frames,             \* how many frames were rendered
    monitorCalls,       \* how many startMonitoring / stopMonitoring calls were made
    \* ---- the display cap of renderClusters / renderMarkers
    sMethod,            \* the render method of the last call
    sPoints,            \* points
    sMaxPoints,         \* maxPoints
    sDisplay,           \* displayPoints
    sCalls,             \* how many calls were made
    \* ---- GeointMapApp geofences
    geofenceZones,      \* this.geofenceZones, each with the polygon drawn for it
    drawEvents,         \* how many draw events were handled
    \* ---- ShaktiChatbot: the state space
    contextHistory,     \* stateSpace.contextHistory
    semanticMemory,     \* stateSpace.semanticMemory
    exchanges,          \* every exchange passed to updateStateSpace, in order
    \* ---- ShaktiChatbot: handleSend
    chatApp,            \* which ShaktiChatbot component is mounted
    loading,            \* loading
    messages,           \* messages
    pendingReplies,     \* replies under way: a timer or an API call per message
    sends,              \* how many times handleSend was called
    \* ---- FastMapApp / GeointMapApp: the generate button
    dataTypeSelect,     \* value of #mapDataTypeSelect
    generateBtnDisabled,\* generateBtn.disabled
    fetching,           \* data types of the fetches of generateMap under way
    uiEvents,           \* how many change and click events were delivered
    \* ---- MapTileCache (map-service-worker.js)
    tileNow,            \* Date.now() in the service worker
    tileCacheMap,       \* tileCache.cache: key -> entry
    accessOrder,        \* tileCache.accessOrder
    tileOps,            \* how many operations and clock steps happened
    \* ---- GeointMapApp.addTrajectoryLayer
    trajectoryInput,    \* points of the last call that drew a trajectory
    sortedPoints,       \* sortedPoints: the path of the 'trajectory' source
    trajectoryCalls     \* how many times addTrajectoryLayer was called

loaderVars == <<loadedModules, loadingPromises, modules, modulePromises,
                promises, loadCalls, loaderMicro>>

(***************************************************************************)
(* Bounds of the loader model.                                             *)
(***************************************************************************)
MaxCalls == 4

ModuleNames == {"draw", "timeline"}
Loaders == {"LazyLoader", "OptimizedMapApp"}

Undefined == "undefined"
NoPromise == 0

(***************************************************************************)
(* Helpers over sequences and maps.                                        *)
(***************************************************************************)
MapSet(m, k, v) == [x \in DOMAIN m \cup {k} |-> IF x = k THEN v ELSE m[x]]
MapDelete(m, k) == [x \in DOMAIN m \ {k} |-> m[x]]
EmptyMap == [x \in {} |-> 0]

RECURSIVE SeqOfSet(_)
\* the elements of a finite set of integers, ascending
SeqOfSet(S) ==
    IF S = {} THEN <<>>
    ELSE LET m == CHOOSE x \in S : \A y \in S : x <= y
         IN <<m>> \o SeqOfSet(S \ {m})

(***************************************************************************)
(* LazyLoader.loadModule, up to its first await: which branch is taken.    *)
(***************************************************************************)
\* the branch selection without the in-flight lookup of lines 178-180
LazyLoaderBranchNoDedup(name) ==
    IF name \in loadedModules THEN "cached" ELSE "starter"

\* the branch selection without the loaded-set lookup of lines 174-176
LazyLoaderBranchNoMemo(name) ==
    IF name \in DOMAIN loadingPromises THEN "waiter" ELSE "starter"

LazyLoaderBranch(name) ==
    IF name \in loadedModules THEN "cached"
    ELSE IF name \in DOMAIN loadingPromises THEN "waiter"
    ELSE "starter"

(***************************************************************************)
(* OptimizedMapApp.loadModule, up to its first await.                      *)
(***************************************************************************)
AppLoaderBranch(name) ==
    IF name \in DOMAIN modules THEN "cached"
    ELSE IF name \in DOMAIN modulePromises THEN "waiter"
    ELSE "starter"

\* what the underlying load resolves with
\* _loadModuleFile: script.onload = resolve, so the load Event
LoadFileValue(name) == <<"loadEvent", name>>
\* loadModuleScript: resolve(window[`Map${Name}Module`])
LoadScriptValue(name) == <<"module", name>>

NewPromise(loader, name) ==
    [loader |-> loader, name |-> name, state |-> "pending", value |-> Undefined]

\* caller code runs in a task (queue empty) or in a reaction to a call's own
\* promise, which is queued behind the continuation of the call that started
\* the load
CallerMayRun ==
    \A i \in 1..Len(loaderMicro) : loadCalls[loaderMicro[i]].role # "starter"

Settled(p) == promises[p].state # "pending"

(***************************************************************************)
(* LazyLoader.loadModule(moduleName): the synchronous part of one call.    *)
(***************************************************************************)
LazyLoadModule(name) ==
    /\ Len(loadCalls) < MaxCalls
    /\ CallerMayRun
    /\ LET br == LazyLoaderBranch(name)
           c == Len(loadCalls) + 1
       IN
       CASE br = "cached" ->
              \* return Promise.resolve()
              /\ loadCalls' = Append(loadCalls,
                    [loader |-> "LazyLoader", name |-> name, role |-> "cached",
                     promise |-> NoPromise, state |-> "fulfilled",
                     value |-> Undefined, joinedSettled |-> FALSE])
              /\ UNCHANGED <<promises, loadingPromises, loaderMicro>>
         [] br = "waiter" ->
              \* return this.loadingPromises.get(moduleName)
              LET p == loadingPromises[name] IN
              /\ loadCalls' = Append(loadCalls,
                    [loader |-> "LazyLoader", name |-> name, role |-> "waiter",
                     promise |-> p, state |-> "pending",
                     value |-> Undefined, joinedSettled |-> Settled(p)])
              /\ loaderMicro' = IF Settled(p) THEN Append(loaderMicro, c)
                                ELSE loaderMicro
              /\ UNCHANGED <<promises, loadingPromises>>
         [] OTHER ->
              \* loadPromise = this._loadModuleFile(...); loadingPromises.set
              LET p == Len(promises) + 1 IN
              /\ promises' = Append(promises, NewPromise("LazyLoader", name))
              /\ loadingPromises' = MapSet(loadingPromises, name, p)
              /\ loadCalls' = Append(loadCalls,
                    [loader |-> "LazyLoader", name |-> name, role |-> "starter",
                     promise |-> p, state |-> "pending",
                     value |-> Undefined, joinedSettled |-> FALSE])
              /\ UNCHANGED loaderMicro
    /\ UNCHANGED <<loadedModules, modules, modulePromises>>

(***************************************************************************)
(* OptimizedMapApp.loadModule(moduleName): the synchronous part.           *)
(***************************************************************************)
AppLoadModule(name) ==
    /\ Len(loadCalls) < MaxCalls
    /\ CallerMayRun
    /\ LET br == AppLoaderBranch(name)
           c == Len(loadCalls) + 1
       IN
       CASE br = "cached" ->
              \* return this.modules.get(moduleName)
              /\ loadCalls' = Append(loadCalls,
                    [loader |-> "OptimizedMapApp", name |-> name,
                     role |-> "cached", promise |-> NoPromise,
                     state |-> "fulfilled", value |-> modules[name],
                     joinedSettled |-> FALSE])
              /\ UNCHANGED <<promises, modulePromises, loaderMicro>>
         [] br = "waiter" ->
              \* return this.modulePromises.get(moduleName)
              LET p == modulePromises[name] IN
              /\ loadCalls' = Append(loadCalls,
                    [loader |-> "OptimizedMapApp", name |-> name,
                     role |-> "waiter", promise |-> p, state |-> "pending",
                     value |-> Undefined, joinedSettled |-> Settled(p)])
              /\ loaderMicro' = IF Settled(p) THEN Append(loaderMicro, c)
                                ELSE loaderMicro
              /\ UNCHANGED <<promises, modulePromises>>
         [] OTHER ->
              \* promise = this.loadModuleScript(...); modulePromises.set
              LET p == Len(promises) + 1 IN
              /\ promises' = Append(promises, NewPromise("OptimizedMapApp", name))
              /\ modulePromises' = MapSet(modulePromises, name, p)
              /\ loadCalls' = Append(loadCalls,
                    [loader |-> "OptimizedMapApp", name |-> name,
                     role |-> "starter", promise |-> p, state |-> "pending",
                     value |-> Undefined, joinedSettled |-> FALSE])
              /\ UNCHANGED loaderMicro
    /\ UNCHANGED <<loadedModules, loadingPromises, modules>>

\* the calls waiting on promise p, in the order their reactions were registered
Reactions(p) ==
    SeqOfSet({c \in 1..Len(loadCalls) :
                 loadCalls[c].promise = p /\ loadCalls[c].state = "pending"})

(***************************************************************************)
(* script.onload / script.onerror: a task settles the underlying load and  *)
(* queues the reactions registered on it.                                  *)
(***************************************************************************)
ScriptOnload(p) ==
    /\ p \in 1..Len(promises)
    /\ promises[p].state = "pending"
    /\ loaderMicro = <<>>
    /\ promises' = [promises EXCEPT
          ![p].state = "fulfilled",
          ![p].value = IF promises[p].loader = "LazyLoader"
                       THEN LoadFileValue(promises[p].name)
                       ELSE LoadScriptValue(promises[p].name)]
    /\ loaderMicro' = Reactions(p)
    /\ UNCHANGED <<loadedModules, loadingPromises, modules, modulePromises,
                   loadCalls>>

ScriptOnerror(p) ==
    /\ p \in 1..Len(promises)
    /\ promises[p].state = "pending"
    /\ loaderMicro = <<>>
    /\ promises' = [promises EXCEPT ![p].state = "rejected",
                                    ![p].value = <<"errorEvent", promises[p].name>>]
    /\ loaderMicro' = Reactions(p)
    /\ UNCHANGED <<loadedModules, loadingPromises, modules, modulePromises,
                   loadCalls>>

(***************************************************************************)
(* The continuation of LazyLoader.loadModule after `await loadPromise`     *)
(* (role starter), or the adoption of the shared promise (role waiter).    *)
(***************************************************************************)
LazyLoaderResume(c) ==
    LET call == loadCalls[c]
        p == promises[call.promise]
    IN
    IF call.role = "starter"
    THEN IF p.state = "fulfilled"
         THEN \* loadedModules.add; loadingPromises.delete; returns undefined
              /\ loadedModules' = loadedModules \cup {call.name}
              /\ loadingPromises' = MapDelete(loadingPromises, call.name)
              /\ loadCalls' = [loadCalls EXCEPT ![c].state = "fulfilled",
                                                ![c].value = Undefined]
         ELSE \* catch: loadingPromises.delete; throw error
              /\ loadingPromises' = MapDelete(loadingPromises, call.name)
              /\ loadCalls' = [loadCalls EXCEPT ![c].state = "rejected",
                                                ![c].value = p.value]
              /\ UNCHANGED loadedModules
    ELSE /\ loadCalls' = [loadCalls EXCEPT ![c].state = p.state,
                                           ![c].value = p.value]
         /\ UNCHANGED <<loadedModules, loadingPromises>>

(***************************************************************************)
(* The continuation of OptimizedMapApp.loadModule after `await promise`.   *)
(***************************************************************************)
AppLoaderResume(c) ==
    LET call == loadCalls[c]
        p == promises[call.promise]
    IN
    IF call.role = "starter" /\ p.state = "fulfilled"
    THEN \* this.modules.set(moduleName, module); return module
         /\ modules' = MapSet(modules, call.name, p.value)
         /\ loadCalls' = [loadCalls EXCEPT ![c].state = "fulfilled",
                                           ![c].value = p.value]
    ELSE \* catch: console.error; throw error   (or: the shared promise)
         /\ loadCalls' = [loadCalls EXCEPT ![c].state = p.state,
                                           ![c].value = p.value]
         /\ UNCHANGED modules

LoaderMicrotask ==
    /\ loaderMicro # <<>>
    /\ LET c == Head(loaderMicro) IN
       IF loadCalls[c].loader = "LazyLoader"
       THEN LazyLoaderResume(c) /\ UNCHANGED <<modules, modulePromises>>
       ELSE AppLoaderResume(c)
            /\ UNCHANGED <<loadedModules, loadingPromises, modulePromises>>
    /\ loaderMicro' = Tail(loaderMicro)
    /\ UNCHANGED promises

LoaderInit ==
    /\ loadedModules = {}
    /\ loadingPromises = EmptyMap
    /\ modules = EmptyMap
    /\ modulePromises = EmptyMap
    /\ promises = <<>>
    /\ loadCalls = <<>>
    /\ loaderMicro = <<>>



(***************************************************************************)
(* CacheManager                                                            *)
(***************************************************************************)
clockVars == <<now, ticks>>
cacheVars == <<now, ticks, dataCache, objTimestamp, mapCache,
               visualizationCache, cacheOps, lastCacheOp, lastSet>>

MaxTicks == 2
MaxCacheOps == 3

CACHE_DURATION == 5 * 60 * 1000

CacheKeys == {"k1", "k2"}
DataObjects == {"o1", "o2"}
CacheValues == {"v1"}
Stores == {"data", "map", "viz"}
Absent == "null"
NoTimestamp == -1
None == <<>>

\* the clock advances by a millisecond or by just under the TTL
TickSteps == {1, CACHE_DURATION - 1}

Fresh(ts) == now - ts < CACHE_DURATION

\* cleanup's test on one entry: value.timestamp < cutoff
Stale(ts) == ts < now - CACHE_DURATION

\* CacheManager.cleanup over the three maps (timestamps of data objects: ots)
CleanData(dc, ots) == [k \in {x \in DOMAIN dc : ~Stale(ots[dc[x]])} |-> dc[k]]
CleanEntries(c) == [k \in {x \in DOMAIN c : ~Stale(c[x].timestamp)} |-> c[k]]

\* getVisualization / getMapInstance: the lookup and its side effect
EntryHit(c, k) == k \in DOMAIN c /\ Fresh(c[k].timestamp)
EntryGet(c, k) == IF EntryHit(c, k) THEN c[k].value ELSE Absent
\* a lookup that refreshes the timestamp of the entry it hits
EntryAfterGetTouch(c, k) ==
    IF k \in DOMAIN c /\ ~EntryHit(c, k) THEN MapDelete(c, k)
    ELSE IF k \in DOMAIN c THEN [c EXCEPT ![k].timestamp = now]
    ELSE c

EntryAfterGet(c, k) ==
    IF k \in DOMAIN c /\ ~EntryHit(c, k) THEN MapDelete(c, k) ELSE c
EntrySet(c, k, v) == MapSet(c, k, [value |-> v, timestamp |-> now])

CacheOpAllowed == cacheOps < MaxCacheOps

Logged(op, store, key, result) ==
    /\ cacheOps' = cacheOps + 1
    /\ lastCacheOp' = [op |-> op, store |-> store, key |-> key,
                       result |-> result, at |-> now]

RecordSet(store, key, v) ==
    lastSet' = [lastSet EXCEPT ![store][key] = [time |-> now, value |-> v]]

\* setData(key, data): data.timestamp = Date.now(); set; cleanup()
SetData(k, o) ==
    /\ CacheOpAllowed
    /\ objTimestamp' = [objTimestamp EXCEPT ![o] = now]
    /\ dataCache' = CleanData(MapSet(dataCache, k, o), objTimestamp')
    /\ mapCache' = CleanEntries(mapCache)
    /\ visualizationCache' = CleanEntries(visualizationCache)
    /\ Logged("set", "data", k, o)
    /\ RecordSet("data", k, o)
    /\ UNCHANGED clockVars

\* getData(key)
GetData(k) ==
    /\ CacheOpAllowed
    /\ LET hit == k \in DOMAIN dataCache /\ Fresh(objTimestamp[dataCache[k]]) IN
       /\ Logged("get", "data", k, IF hit THEN dataCache[k] ELSE Absent)
       /\ dataCache' = IF k \in DOMAIN dataCache /\ ~hit
                       THEN MapDelete(dataCache, k) ELSE dataCache
    /\ UNCHANGED <<clockVars, objTimestamp, mapCache, visualizationCache, lastSet>>

\* setMapInstance(key, mapInstance)
SetMapInstance(k, v) ==
    /\ CacheOpAllowed
    /\ mapCache' = EntrySet(mapCache, k, v)
    /\ Logged("set", "map", k, v)
    /\ RecordSet("map", k, v)
    /\ UNCHANGED <<clockVars, dataCache, objTimestamp, visualizationCache>>

\* getMapInstance(key)
GetMapInstance(k) ==
    /\ CacheOpAllowed
    /\ Logged("get", "map", k, EntryGet(mapCache, k))
    /\ mapCache' = EntryAfterGet(mapCache, k)
    /\ UNCHANGED <<clockVars, dataCache, objTimestamp, visualizationCache, lastSet>>

\* setVisualization(key, vizData)
SetVisualization(k, v) ==
    /\ CacheOpAllowed
    /\ visualizationCache' = EntrySet(visualizationCache, k, v)
    /\ Logged("set", "viz", k, v)
    /\ RecordSet("viz", k, v)
    /\ UNCHANGED <<clockVars, dataCache, objTimestamp, mapCache>>

\* getVisualization(key)
GetVisualization(k) ==
    /\ CacheOpAllowed
    /\ Logged("get", "viz", k, EntryGet(visualizationCache, k))
    /\ visualizationCache' = EntryAfterGet(visualizationCache, k)
    /\ UNCHANGED <<clockVars, dataCache, objTimestamp, mapCache, lastSet>>

\* clear()
CacheClear ==
    /\ CacheOpAllowed
    /\ dataCache' = EmptyMap
    /\ mapCache' = EmptyMap
    /\ visualizationCache' = EmptyMap
    /\ Logged("clear", "all", "", Absent)
    /\ lastSet' = [s \in Stores |-> [k \in CacheKeys |-> None]]
    /\ UNCHANGED <<clockVars, objTimestamp>>

\* wall-clock time passes between two tasks
Tick(d) ==
    /\ ticks < MaxTicks
    /\ now' = now + d
    /\ ticks' = ticks + 1

CacheTick(d) ==
    /\ Tick(d)
    /\ UNCHANGED <<dataCache, objTimestamp, mapCache, visualizationCache,
                   cacheOps, lastCacheOp, lastSet>>

CacheInit ==
    /\ now = 0
    /\ ticks = 0
    /\ dataCache = EmptyMap
    /\ objTimestamp = [o \in DataObjects |-> NoTimestamp]
    /\ mapCache = EmptyMap
    /\ visualizationCache = EmptyMap
    /\ cacheOps = 0
    /\ lastCacheOp = [op |-> "none", store |-> "all", key |-> "",
                      result |-> Absent, at |-> 0]
    /\ lastSet = [s \in Stores |-> [k \in CacheKeys |-> None]]

(***************************************************************************)
(* BatchProcessor                                                          *)
(***************************************************************************)
batchVars == <<bEntry, bItems, bOnProgress, bChunks, bResults, bI,
               bChunkResults, bPc, bYields, bProgress, bOut, bFailAt, bCalls,
               bError, bSinceYield>>

\* bounds of the inputs tried
MaxLen == 3
MaxChunk == 3
MaxFailAt == 2

\* this.chunkSize
DefaultChunkSize == 1000
\* processLargeDataset: data.length > 10000, chunkSize: 1000
LargeThreshold == 10000
LargeChunkSize == 1000
\* processBatch: i % 10 === 0
YieldEvery == 10

Min(a, b) == IF a < b THEN a ELSE b

\* the caller-supplied processor: an element-wise transform of one chunk
Feature(x) == x + 1000000
Processor(chunk) == [j \in 1..Len(chunk) |-> Feature(chunk[j])]

\* a chunking that keeps only the full chunks (drops a short last chunk)
CreateChunksDropTail(array, size) ==
    [j \in 1..(Len(array) \div size) |->
        SubSeq(array, (j - 1) * size + 1, j * size)]

\* _createChunks(array, size)
CreateChunks(array, size) ==
    [j \in 1..((Len(array) + size - 1) \div size) |->
        SubSeq(array, (j - 1) * size + 1, Min(j * size, Len(array)))]

\* a loop that never yields
ShouldYieldNever(i) == FALSE

\* the test guarding `await this._yieldToMainThread()`
ShouldYield(i) == i > 0 /\ i % YieldEvery = 0

\* options.chunkSize || this.chunkSize   (0: no chunkSize given)
EffectiveChunkSize(opt) == IF opt = 0 THEN DefaultChunkSize ELSE opt

Ramp(n) == [k \in 1..n |-> k]

RECURSIVE SeqsUpTo(_, _)
SeqsUpTo(S, n) ==
    IF n = 0 THEN {<<>>}
    ELSE LET shorter == SeqsUpTo(S, n - 1) IN
         shorter \cup {Append(q, x) : q \in {r \in shorter : Len(r) = n - 1}, x \in S}

\* the calls tried: short inputs with every small chunk size, inputs long
\* enough for eleven and for twenty-one chunks, and inputs around the
\* large-dataset threshold with the chunk size of 1000
BatchInputs ==
    {<<items, size>> : items \in SeqsUpTo({1, 2}, MaxLen), size \in 0..MaxChunk}
    \cup {<<Ramp(n), 1>> : n \in {YieldEvery, YieldEvery + 1, 2 * YieldEvery + 1}}
    \cup {<<Ramp(n), LargeChunkSize>> :
             n \in {LargeThreshold - 1, LargeThreshold, LargeThreshold + 1,
                    2 * LargeThreshold + 1}}

\* where the processor throws: on no chunk, or on the chunk of one index
FailChoices == {{}} \cup {{i} : i \in 0..MaxFailAt}
NoError == "none"
\* the error a failing processor throws; it is handed the chunk only, so
\* the error names no chunk index, and processBatch adds nothing to it
ProcessorError == [cause |-> "transformError", chunkIndex |-> {}]

\* `await processor(chunk)` for the chunk of index i: the call suspends on the
\* processor's result, or is rejected with the processor's error
CallProcessor(i, since) ==
    /\ bCalls' = bCalls + 1
    /\ bSinceYield' = since + 1
    /\ IF i \in bFailAt'
       THEN /\ bPc' = "rejected"
            /\ bChunkResults' = <<>>
            /\ bError' = ProcessorError
       ELSE /\ bPc' = "awaitChunk"
            /\ bChunkResults' = Processor(bChunks'[i + 1])
            /\ UNCHANGED bError

\* the for loop of processBatch from the top of iteration i to its next await
\* (or to the return)
LoopFrom(i, results) ==
    /\ bI' = i
    /\ bResults' = results
    /\ IF i >= Len(bChunks')
       THEN /\ bPc' = "done"
            /\ bOut' = results
            /\ bChunkResults' = <<>>
            /\ UNCHANGED <<bCalls, bError, bSinceYield>>
       ELSE IF ShouldYield(i)
       THEN /\ bPc' = "yield"
            /\ bChunkResults' = <<>>
            /\ UNCHANGED <<bOut, bCalls, bError, bSinceYield>>
       ELSE /\ CallProcessor(i, bSinceYield)
            /\ UNCHANGED bOut

\* processBatch(items, processor, options)
ProcessBatch(items, size, onProgress, failAt) ==
    /\ bPc = "idle"
    /\ bEntry' = "processBatch"
    /\ bFailAt' = failAt
    /\ bItems' = items
    /\ bOnProgress' = onProgress
    /\ bChunks' = CreateChunks(items, EffectiveChunkSize(size))
    /\ LoopFrom(0, <<>>)
    /\ UNCHANGED <<bYields, bProgress>>

\* processLargeDataset(data, processor)
ProcessLargeDataset(data, failAt) ==
    /\ bPc = "idle"
    /\ bEntry' = "processLargeDataset"
    /\ bItems' = data
    /\ bFailAt' = failAt
    /\ IF Len(data) > LargeThreshold
       THEN /\ bOnProgress' = TRUE
            /\ bChunks' = CreateChunks(data, EffectiveChunkSize(LargeChunkSize))
            /\ LoopFrom(0, <<>>)
       ELSE \* return processor(data)
            /\ bCalls' = bCalls + 1
            /\ bSinceYield' = bSinceYield + 1
            /\ IF 0 \in failAt
               THEN bPc' = "rejected" /\ bError' = ProcessorError /\ UNCHANGED bOut
               ELSE bPc' = "done" /\ bOut' = Processor(data) /\ UNCHANGED bError
            /\ UNCHANGED <<bOnProgress, bChunks, bResults, bI, bChunkResults>>
    /\ UNCHANGED <<bYields, bProgress>>

\* a loop that never reports progress
OnProgressSkipped(progress, i, results) == progress

\* if (options.onProgress) options.onProgress((i + 1) / chunks.length,
\* results.length): the fraction is kept as numerator and denominator
OnProgress(progress, i, results) ==
    IF bOnProgress
    THEN Append(progress, [done |-> i + 1, total |-> Len(bChunks),
                           processed |-> Len(results)])
    ELSE progress

\* the timer of _yieldToMainThread fires: the loop goes on with processor(chunk)
BatchYieldResume ==
    /\ bPc = "yield"
    /\ bYields' = bYields + 1
    /\ UNCHANGED <<bEntry, bItems, bOnProgress, bChunks, bResults, bI,
                   bProgress, bOut, bFailAt>>
    /\ CallProcessor(bI, 0)

\* `await processor(chunk)` resumes: push the results, report progress, i++
BatchChunkResume ==
    /\ bPc = "awaitChunk"
    /\ UNCHANGED bFailAt
    /\ LET results == bResults \o bChunkResults IN
       /\ bProgress' = OnProgress(bProgress, bI, results)
       /\ UNCHANGED bChunks
       /\ LoopFrom(bI + 1, results)
    /\ UNCHANGED <<bEntry, bItems, bOnProgress, bYields>>

BatchInit ==
    /\ bEntry = "none"
    /\ bItems = <<>>
    /\ bOnProgress = FALSE
    /\ bChunks = <<>>
    /\ bResults = <<>>
    /\ bI = 0
    /\ bChunkResults = <<>>
    /\ bPc = "idle"
    /\ bYields = 0
    /\ bProgress = <<>>
    /\ bOut = <<>>
    /\ bFailAt = {}
    /\ bCalls = 0
    /\ bError = NoError
    /\ bSinceYield = 0

(***************************************************************************)
(* OptimizedMapRenderer                                                    *)
(***************************************************************************)
lifeVars == <<rMap, rDisposed, disposeCalls, initState, isMonitoring,
              memoryIntervals>>
renderOnlyVars == <<rMap, rDisposed, disposeCalls, initState, isMonitoring,
                    memoryIntervals, mapLayers, mapSources, rLayers,
                    renderCalls, renderMicro, renderTimers>>
cacheRestVars == <<dataCache, objTimestamp, mapCache, cacheOps, lastCacheOp,
                   lastSet>>

MaxRenders == 2
MaxDisposes == 2

\* the point sets tried, and how many points each holds
Datasets == {"d1", "d2"}
PointCount(d) == IF d = "d1" THEN 3 ELSE LargeThreshold + 1

\* the type argument; trajectory stands for the three types the switch names
\* without a method of the class behind them (density, trajectory, geofence)
RenderTypes == {"heatmap", "clusters", "markers", "trajectory"}

\* the options argument: 0 is {}, n > 0 is {maxPoints: n}
RenderOptions == {0, 2}

\* the switch of renderVisualization
MethodOf(type) ==
    CASE type = "heatmap" -> "renderHeatmap"
      [] type = "clusters" -> "renderClusters"
      [] type \in {"density", "trajectory", "geofence"} -> "notAFunction"
      [] OTHER -> "renderMarkers"

\* `${prefix}_${JSON.stringify(options)}`
CacheKey(method, options, data) == <<method, options>>

SourceOf(method) ==
    CASE method = "renderHeatmap" -> "heatmap-source"
      [] method = "renderClusters" -> "clusters-source"
      [] OTHER -> "markers-source"

LayersOf(method) ==
    CASE method = "renderHeatmap" -> {"heatmap-layer"}
      [] method = "renderClusters" ->
            {"clusters-layer", "cluster-count-layer", "unclustered-points"}
      [] OTHER -> {"markers-layer"}

\* options.maxPoints || 10000  and  options.maxPoints || 5000
ClustersMaxPoints == 10000
MarkersMaxPoints == 5000
MaxPoints(method, options) ==
    IF options # 0 THEN options
    ELSE IF method = "renderClusters" THEN ClustersMaxPoints ELSE MarkersMaxPoints

\* the visualization object that is cached
Visualization(method) ==
    [sourceId |-> SourceOf(method), layers |-> LayersOf(method), type |-> method]

ChunkCount(n, size) == (n + size - 1) \div size

\* a host that drops the reaction of a settled promise
EnqueueDropped(q, c) == q

\* the continuation of call c after its await, queued as a microtask
Enqueue(q, c) == Append(q, <<"resume", c>>)

\* clearVisualizationLayers(): the layers registered in this.layers are
\* removed from the backend (this.sources holds nothing), both maps cleared
ClearedLayers ==
    IF rMap = "ready" THEN mapLayers \ DOMAIN rLayers ELSE mapLayers

\* renderVisualization(data, type, options): measureRenderTime calls the
\* async callback, which runs clearVisualizationLayers and suspends at its
\* await; measureRenderTime returns without awaiting it, so the promise of
\* renderVisualization is resolved at once (the caller resumes one microtask
\* later).
RenderVisualization(data, type, options) ==
    /\ Len(renderCalls) < MaxRenders
    /\ LET c == Len(renderCalls) + 1 IN
       /\ mapLayers' = ClearedLayers
       /\ rLayers' = EmptyMap
       /\ renderCalls' = Append(renderCalls,
             [data |-> data, type |-> type, options |-> options,
              pc |-> "dispatch", i |-> 0, nChunks |-> 0, yields |-> 0,
              issuedAt |-> now, ready |-> rMap = "ready",
              overlap |-> \E a \in 1..Len(renderCalls) : renderCalls[a].pc # "done",
              awaited |-> FALSE, hit |-> "unknown", transformed |-> FALSE,
              outcome |-> "pending", superseded |-> FALSE,
              \* where the callback stood when measureRenderTime took the
              \* end time: suspended at its first await
              measuredAt |-> "dispatch",
              \* how the promise renderVisualization returns is settled:
              \* with the undefined that measureRenderTime returned
              returned |-> "fulfilled"])
       /\ renderMicro' = Append(Enqueue(renderMicro, c), <<"caller", c>>)
    /\ UNCHANGED <<lifeVars, mapSources, renderTimers>>
    /\ UNCHANGED cacheVars

\* the try block of renderHeatmap / renderClusters / renderMarkers from the
\* removal of the old layer to the end, with its catch
Install(c) ==
    LET call == renderCalls[c]
        m == MethodOf(call.type)
        late == c < Len(renderCalls)
    IN
    IF rMap = "ready"
    THEN /\ mapSources' = MapSet(mapSources, SourceOf(m),
                                 [data |-> call.data, by |-> c])
         /\ mapLayers' = mapLayers \cup LayersOf(m)
         /\ visualizationCache' =
               EntrySet(visualizationCache, CacheKey(m, call.options, call.data),
                        Visualization(m))
         /\ rLayers' = IF m = "renderHeatmap"
                       THEN MapSet(rLayers, "heatmap-layer", Visualization(m))
                       ELSE rLayers
         /\ renderCalls' = [renderCalls EXCEPT ![c].pc = "done",
                                               ![c].transformed = TRUE,
                                               ![c].outcome = "rendered",
                                               ![c].superseded = late]
    ELSE \* this.map is null: addSource throws a TypeError, which is caught
         /\ renderCalls' = [renderCalls EXCEPT ![c].pc = "done",
                                               ![c].transformed = TRUE,
                                               ![c].outcome = "failed"]
         /\ UNCHANGED <<mapSources, mapLayers, visualizationCache, rLayers>>

\* the callback after `await this.clearVisualizationLayers()`: the switch and
\* the render method up to its first await
Dispatch(c) ==
    LET call == renderCalls[c]
        m == MethodOf(call.type)
        key == CacheKey(m, call.options, call.data)
        n == PointCount(call.data)
    IN
    IF m = "notAFunction"
    THEN \* this.renderTrajectory is not a function: the callback's promise
         \* rejects, and nothing handles it
         /\ renderCalls' = [renderCalls EXCEPT ![c].pc = "done",
                                               ![c].hit = "none",
                                               ![c].outcome = "typeError"]
         /\ UNCHANGED <<mapSources, mapLayers, visualizationCache, rLayers>>
         /\ renderMicro' = Tail(renderMicro)
    ELSE IF EntryHit(visualizationCache, key)
    THEN \* _applyCachedVisualization(cached): logs, changes nothing
         /\ renderCalls' = [renderCalls EXCEPT ![c].pc = "done",
                                               ![c].hit = "hit",
                                               ![c].outcome = "hit"]
         /\ UNCHANGED <<mapSources, mapLayers, visualizationCache, rLayers>>
         /\ renderMicro' = Tail(renderMicro)
    ELSE IF m = "renderHeatmap"
    THEN \* await this.batchProcessor.processLargeDataset(points, ...)
         /\ renderCalls' = [renderCalls EXCEPT
               ![c].hit = "miss",
               ![c].transformed = TRUE,
               ![c].nChunks = IF n > LargeThreshold
                              THEN ChunkCount(n, EffectiveChunkSize(LargeChunkSize))
                              ELSE 0,
               ![c].pc = IF n > LargeThreshold THEN "awaitChunk"
                         ELSE "awaitProcessed"]
         /\ visualizationCache' = EntryAfterGet(visualizationCache, key)
         /\ renderMicro' = Enqueue(Tail(renderMicro), c)
         /\ UNCHANGED <<mapSources, mapLayers, rLayers>>
    ELSE IF n > MaxPoints(m, call.options)
    THEN \* await this._samplePoints(points, maxPoints)
         /\ renderCalls' = [renderCalls EXCEPT ![c].hit = "miss",
                                               ![c].pc = "awaitSample"]
         /\ visualizationCache' = EntryAfterGet(visualizationCache, key)
         /\ renderMicro' = Enqueue(Tail(renderMicro), c)
         /\ UNCHANGED <<mapSources, mapLayers, rLayers>>
    ELSE \* no await: the render method runs to its end
         /\ renderMicro' = Tail(renderMicro)
         /\ LET call2 == [call EXCEPT !.hit = "miss"] IN
            IF rMap = "ready"
            THEN /\ mapSources' = MapSet(mapSources, SourceOf(m),
                                         [data |-> call.data, by |-> c])
                 /\ mapLayers' = mapLayers \cup LayersOf(m)
                 /\ visualizationCache' =
                       EntrySet(EntryAfterGet(visualizationCache, key), key,
                                Visualization(m))
                 /\ UNCHANGED rLayers
                 /\ renderCalls' = [renderCalls EXCEPT ![c] =
                       [call2 EXCEPT !.pc = "done", !.transformed = TRUE,
                                     !.outcome = "rendered",
                                     !.superseded = c < Len(renderCalls)]]
            ELSE /\ renderCalls' = [renderCalls EXCEPT ![c] =
                       [call2 EXCEPT !.pc = "done", !.transformed = TRUE,
                                     !.outcome = "failed"]]
                 /\ visualizationCache' = EntryAfterGet(visualizationCache, key)
                 /\ UNCHANGED <<mapSources, mapLayers, rLayers>>

\* _yieldToMainThread(): setTimeout(resolve, 0)
TimerSet(q, c) == Append(q, c)

\* processBatch inside renderHeatmap: `await processor(chunk)` resumes
RenderChunkResume(c) ==
    LET call == renderCalls[c]
        i == call.i + 1
    IN
    /\ UNCHANGED <<mapSources, mapLayers, visualizationCache, rLayers>>
    /\ IF i >= call.nChunks
       THEN \* return results, through processLargeDataset, to renderHeatmap
            /\ renderCalls' = [renderCalls EXCEPT ![c].i = i,
                                                  ![c].pc = "awaitProcessed"]
            /\ renderMicro' = Enqueue(Tail(renderMicro), c)
            /\ UNCHANGED renderTimers
       ELSE IF ShouldYield(i)
       THEN /\ renderCalls' = [renderCalls EXCEPT ![c].i = i, ![c].pc = "yield"]
            /\ renderMicro' = Tail(renderMicro)
            /\ renderTimers' = TimerSet(renderTimers, c)
       ELSE /\ renderCalls' = [renderCalls EXCEPT ![c].i = i]
            /\ renderMicro' = Enqueue(Tail(renderMicro), c)
            /\ UNCHANGED renderTimers

\* one microtask: the continuation of a render call, or the caller of a
\* renderVisualization call resuming from its await of the returned promise
RenderMicrotask ==
    /\ renderMicro # <<>>
    /\ LET kind == Head(renderMicro)[1]
           c == Head(renderMicro)[2]
       IN
       IF kind = "caller"
       THEN /\ renderCalls' = [renderCalls EXCEPT ![c].awaited = TRUE]
            /\ renderMicro' = Tail(renderMicro)
            /\ UNCHANGED <<mapSources, mapLayers, visualizationCache, rLayers,
                           renderTimers>>
       ELSE IF renderCalls[c].pc = "dispatch"
       THEN Dispatch(c) /\ UNCHANGED renderTimers
       ELSE IF renderCalls[c].pc = "awaitChunk"
       THEN RenderChunkResume(c)
       ELSE /\ Install(c)
            /\ renderMicro' = Tail(renderMicro)
            /\ UNCHANGED renderTimers
    /\ UNCHANGED <<lifeVars, clockVars, cacheRestVars>>

\* a task: the timer of _yieldToMainThread fires and the loop goes on
RenderTimer ==
    /\ renderMicro = <<>>
    /\ renderTimers # <<>>
    /\ LET c == Head(renderTimers) IN
       /\ renderCalls' = [renderCalls EXCEPT
             ![c].pc = "awaitChunk",
             ![c].yields = renderCalls[c].yields + 1]
       /\ renderMicro' = Enqueue(renderMicro, c)
    /\ renderTimers' = Tail(renderTimers)
    /\ UNCHANGED <<lifeVars, mapLayers, mapSources, rLayers>>
    /\ UNCHANGED cacheVars

\* initialize(container, options), up to its await of the map's load event.
\* The Map constructor either throws (caught, logged, rethrown to the caller)
\* or returns a map that is loading.
Initialize(constructed) ==
    /\ renderMicro = <<>>
    /\ initState = "idle" /\ ~rDisposed
    /\ IF constructed
       THEN rMap' = "loading" /\ initState' = "awaitLoad"
       ELSE rMap' = rMap /\ initState' = "rejected"
    /\ UNCHANGED <<rDisposed, disposeCalls, isMonitoring, memoryIntervals,
                   mapLayers, mapSources, rLayers, renderCalls, renderMicro,
                   renderTimers>>
    /\ UNCHANGED cacheVars

\* the host offers performance.memory (Chromium), so that monitorMemory
\* sets its interval timer
HostHasMemoryApi == TRUE

\* monitorMemory(): how many interval timers a startMonitoring call sets
MonitorMemoryTimers == IF HostHasMemoryApi THEN 1 ELSE 0

\* the map's load event: the promise initialize awaits resolves, and
\* initialize goes on to startMonitoring and returns the map
MapLoad ==
    /\ renderMicro = <<>>
    /\ rMap = "loading"
    /\ rMap' = "ready"
    /\ initState' = "resolved"
    /\ isMonitoring' = TRUE
    /\ memoryIntervals' = IF isMonitoring THEN memoryIntervals
                          ELSE memoryIntervals + MonitorMemoryTimers
    /\ UNCHANGED <<rDisposed, disposeCalls, mapLayers, mapSources, rLayers,
                   renderCalls, renderMicro, renderTimers>>
    /\ UNCHANGED cacheVars

\* the backend fails while initialize waits (its error event): initialize
\* registered a handler for load only, so nothing resumes it
MapError ==
    /\ renderMicro = <<>>
    /\ rMap = "loading"
    /\ rMap' = "errored"
    /\ UNCHANGED <<rDisposed, disposeCalls, initState, isMonitoring,
                   memoryIntervals, mapLayers, mapSources, rLayers,
                   renderCalls, renderMicro, renderTimers>>
    /\ UNCHANGED cacheVars

\* cacheManager.clear() on one store
ClearedStore(c) == EmptyMap

\* dispose(): map.remove(), clearVisualizationLayers(), cacheManager.clear(),
\* performanceMonitor.stopMonitoring() (which resets isMonitoring and clears
\* no timer)
Dispose ==
    /\ renderMicro = <<>>
    /\ disposeCalls < MaxDisposes
    /\ rMap' = "null"
    /\ rDisposed' = TRUE
    /\ disposeCalls' = disposeCalls + 1
    /\ mapLayers' = {}
    /\ mapSources' = EmptyMap
    /\ rLayers' = EmptyMap
    /\ dataCache' = ClearedStore(dataCache)
    /\ mapCache' = ClearedStore(mapCache)
    /\ visualizationCache' = ClearedStore(visualizationCache)
    /\ isMonitoring' = FALSE
    /\ UNCHANGED <<initState, memoryIntervals, renderCalls, renderMicro,
                   renderTimers>>
    /\ UNCHANGED <<clockVars, objTimestamp, cacheOps, lastCacheOp, lastSet>>

\* time passes between two tasks
RenderTick(d) ==
    /\ renderMicro = <<>>
    /\ Tick(d)
    /\ UNCHANGED renderOnlyVars
    /\ UNCHANGED <<visualizationCache, cacheRestVars>>

\* the renderer as constructed, apart from its performance monitor
RenderRestInit ==
    /\ rMap = "null"
    /\ rDisposed = FALSE
    /\ disposeCalls = 0
    /\ initState = "idle"
    /\ mapLayers = {}
    /\ mapSources = EmptyMap
    /\ rLayers = EmptyMap
    /\ renderCalls = <<>>
    /\ renderMicro = <<>>
    /\ renderTimers = <<>>

RenderInit ==
    /\ RenderRestInit
    /\ isMonitoring = FALSE
    /\ memoryIntervals = 0

(***************************************************************************)
(* generateMap: MapApp (README-FIXED.md) and GeointMapApp (fast-map.js)    *)
(***************************************************************************)
generateVars == <<gApp, gFetched, gOutcome, gPipeline, gCached, gCalls, gMap,
                  gDisplayed, gAttempted>>

MaxGenerates == 2
MaxFetched == 2

\* the points a response may hold: lat and lon, and whether both are of
\* type number and not NaN
FetchedPoints ==
    {[lat |-> 20, lon |-> 78, numeric |-> TRUE],
     [lat |-> 90, lon |-> 0 - 180, numeric |-> TRUE],
     [lat |-> 95, lon |-> 78, numeric |-> TRUE],
     [lat |-> 20, lon |-> 200, numeric |-> TRUE],
     [lat |-> 0 - 91, lon |-> 78, numeric |-> TRUE],
     [lat |-> 20, lon |-> 78, numeric |-> FALSE]}

FetchedSets == SeqsUpTo(FetchedPoints, MaxFetched)

\* the data cache holds nothing for the data type (a cached set is never empty)
NotCached == <<>>

\* the filter predicate of MapApp.generateMap
ValidRange(pt) ==
    /\ pt.numeric
    /\ pt.lat >= 0 - 90 /\ pt.lat <= 90
    /\ pt.lon >= 0 - 180 /\ pt.lon <= 180

\* data.points.filter(p => validRange)
RECURSIVE FilterValid(_)
FilterValid(q) ==
    IF q = <<>> THEN <<>>
    ELSE IF ValidRange(Head(q)) THEN <<Head(q)>> \o FilterValid(Tail(q))
    ELSE FilterValid(Tail(q))

\* a page constructs one application (window.mapApp or window.geointMapApp)
\* and every generateMap call of the page goes to it
GenerateAllowed(app) == gCalls < MaxGenerates /\ gApp \in {"none", app}

\* MapApp.showMapError(message): a notification, and the demo map if no map
\* exists; with a map, the container keeps the loading overlay that
\* generateMap wrote into it before fetching
MapAppShowMapError ==
    /\ gMap' = TRUE
    /\ gDisplayed' = IF gMap THEN "loadingOverlay" ELSE "demoMap"

\* MapApp.handleMapData(data): initializeMap(data) builds a map in the
\* emptied container; with a map, the markers are replaced on the existing
\* Leaflet map, whose panes the loading overlay has replaced in the container
MapAppHandleMapData ==
    /\ gMap' = TRUE
    /\ gDisplayed' = IF gMap THEN "loadingOverlay" ELSE "map"

\* MapApp.generateMap with nothing usable cached: fetch, validate, cache,
\* handleMapData; an empty or wholly invalid data set is shown as an error
MapAppGenerateMap(points) ==
    /\ GenerateAllowed("MapApp")
    /\ gCalls' = gCalls + 1
    /\ gApp' = "MapApp"
    /\ gFetched' = points
    /\ LET validPoints == FilterValid(points) IN
       IF points = <<>> \/ validPoints = <<>>
       THEN /\ gOutcome' = "error"
            /\ gAttempted' = FALSE
            /\ MapAppShowMapError
            /\ UNCHANGED <<gPipeline, gCached>>
       ELSE /\ gOutcome' = "rendered"
            /\ gCached' = validPoints
            /\ gPipeline' = validPoints
            /\ gAttempted' = TRUE
            /\ MapAppHandleMapData

\* MapApp.generateMap when isDataCached(dataType): handleMapData(cachedData)
MapAppGenerateCached ==
    /\ GenerateAllowed("MapApp")
    /\ gCached # NotCached
    /\ gCalls' = gCalls + 1
    /\ gApp' = "MapApp"
    /\ gOutcome' = "rendered"
    /\ gPipeline' = gCached
    /\ gAttempted' = TRUE
    /\ MapAppHandleMapData
    /\ UNCHANGED <<gFetched, gCached>>

\* MapApp.generateMap when the fetch fails, the status is not ok or the
\* response is an error envelope: the catch block calls showMapError
MapAppGenerateError ==
    /\ GenerateAllowed("MapApp")
    /\ gCached = NotCached
    /\ gCalls' = gCalls + 1
    /\ gApp' = "MapApp"
    /\ gOutcome' = "error"
    /\ gAttempted' = FALSE
    /\ MapAppShowMapError
    /\ UNCHANGED <<gFetched, gPipeline, gCached>>

\* GeointMapApp.generateMap: fetch, then initializeMap(data) / updateMap(data)
\* with the response as it came
GeointGenerateMap(points) ==
    /\ GenerateAllowed("GeointMapApp")
    /\ gCalls' = gCalls + 1
    /\ gApp' = "GeointMapApp"
    /\ gFetched' = points
    /\ gOutcome' = "rendered"
    /\ gPipeline' = points
    /\ gMap' = TRUE
    /\ gDisplayed' = "map"
    /\ gAttempted' = TRUE
    /\ UNCHANGED gCached

\* FastMapApp.generateMap: the same steps on the Leaflet map
FastGenerateMap(points) ==
    /\ GenerateAllowed("FastMapApp")
    /\ gCalls' = gCalls + 1
    /\ gApp' = "FastMapApp"
    /\ gFetched' = points
    /\ gOutcome' = "rendered"
    /\ gPipeline' = points
    /\ gMap' = TRUE
    /\ gDisplayed' = "map"
    /\ gAttempted' = TRUE
    /\ UNCHANGED gCached

\* generateMap of FastMapApp or GeointMapApp when the fetch fails or the
\* response is an error envelope: the catch block shows a notification
FastGenerateError(app) ==
    /\ GenerateAllowed(app)
    /\ gCalls' = gCalls + 1
    /\ gApp' = app
    /\ gOutcome' = "error"
    /\ gAttempted' = FALSE
    /\ UNCHANGED <<gFetched, gPipeline, gCached, gMap, gDisplayed>>

GenerateInit ==
    /\ gApp = "none"
    /\ gFetched = <<>>
    /\ gOutcome = "idle"
    /\ gPipeline = <<>>
    /\ gCached = NotCached
    /\ gCalls = 0
    /\ gMap = FALSE
    /\ gDisplayed = "placeholder"
    /\ gAttempted = FALSE

(***************************************************************************)
(* PerformanceMonitor: startMonitoring, stopMonitoring, the frame callbacks *)
(* of monitorFPS and the interval timer of monitorMemory.                  *)
(***************************************************************************)
monitorOnlyVars == <<perfNow, frameCount, lastTime, metricsFps, metricsMemory,
                     fpsHistory, rafCallbacks, frameIncrements, frames,
                     monitorCalls>>

MaxFrames == 3
MaxMonitorCalls == 4

\* the time between two frames, in ms
FrameSteps == {500, 1000}
\* usedJSHeapSize in MB at the instants the memory timer fires
HeapSizes == {40, 41}
\* this.fpsHistory.length > 60
FpsHistoryMax == 60
\* now - this.lastTime >= 1000
FpsWindow == 1000

\* Math.round(p / q) for p >= 0, q > 0
RoundDiv(p, q) == (2 * p + q) \div (2 * q)

\* a ring that is never trimmed
RingPushUnbounded(history, fps) == Append(history, fps)

\* this.fpsHistory.push(fps); if (this.fpsHistory.length > 60) shift()
RingPush(history, fps) ==
    LET pushed == Append(history, fps) IN
    IF Len(pushed) > FpsHistoryMax THEN Tail(pushed) ELSE pushed

RECURSIVE SumOf(_)
\* fpsHistory.reduce((a, b) => a + b)
SumOf(q) == IF q = <<>> THEN 0 ELSE Head(q) + SumOf(Tail(q))

\* getMetrics().avgFps
AvgFps ==
    IF Len(fpsHistory) > 0 THEN RoundDiv(SumOf(fpsHistory), Len(fpsHistory))
    ELSE 0

\* one run of the body of monitorFPS past its guard, on the state
\* st = [frameCount, lastTime, fps, history]
MonitorFPSBody(st) ==
    LET count == st.frameCount + 1 IN
    IF perfNow' - st.lastTime >= FpsWindow
    THEN LET fps == RoundDiv(count * 1000, perfNow' - st.lastTime)
         IN [frameCount |-> 0, lastTime |-> perfNow', fps |-> fps,
             history |-> RingPush(st.history, fps)]
    ELSE [st EXCEPT !.frameCount = count]

RECURSIVE MonitorFPSRuns(_, _)
\* n runs of the body, one after the other
MonitorFPSRuns(st, n) ==
    IF n = 0 THEN st ELSE MonitorFPSRuns(MonitorFPSBody(st), n - 1)

MonitorState ==
    [frameCount |-> frameCount, lastTime |-> lastTime, fps |-> metricsFps,
     history |-> fpsHistory]

\* the state after n runs of the body is stored
MonitorFPSApply(n) ==
    LET st == MonitorFPSRuns(MonitorState, n) IN
    /\ frameCount' = st.frameCount
    /\ lastTime' = st.lastTime
    /\ metricsFps' = st.fps
    /\ fpsHistory' = st.history

\* if (this.isMonitoring) return
StartGuard == isMonitoring

\* startMonitoring(): monitorFPS() runs once at once and requests a frame,
\* monitorMemory() sets its interval timer
StartMonitoring ==
    /\ monitorCalls < MaxMonitorCalls
    /\ monitorCalls' = monitorCalls + 1
    /\ UNCHANGED <<perfNow, metricsMemory, frameIncrements, frames>>
    /\ IF StartGuard
       THEN UNCHANGED <<isMonitoring, memoryIntervals, frameCount, lastTime,
                        metricsFps, fpsHistory, rafCallbacks>>
       ELSE /\ isMonitoring' = TRUE
            /\ MonitorFPSApply(1)
            /\ rafCallbacks' = rafCallbacks + 1
            /\ memoryIntervals' = memoryIntervals + MonitorMemoryTimers

\* stopMonitoring()
StopMonitoring ==
    /\ monitorCalls < MaxMonitorCalls
    /\ monitorCalls' = monitorCalls + 1
    /\ isMonitoring' = FALSE
    /\ UNCHANGED <<memoryIntervals, perfNow, frameCount, lastTime, metricsFps,
                   metricsMemory, fpsHistory, rafCallbacks, frameIncrements,
                   frames>>

\* the browser renders a frame: every frame callback requested before the
\* frame runs, each being () => this.monitorFPS(); a callback that runs with
\* the flag set requests the next frame
AnimationFrame(step) ==
    /\ frames < MaxFrames
    /\ frames' = frames + 1
    /\ perfNow' = perfNow + step
    /\ IF isMonitoring
       THEN /\ MonitorFPSApply(rafCallbacks)
            /\ frameIncrements' = rafCallbacks
            /\ UNCHANGED rafCallbacks
       ELSE /\ rafCallbacks' = 0
            /\ frameIncrements' = 0
            /\ UNCHANGED <<frameCount, lastTime, metricsFps, fpsHistory>>
    /\ UNCHANGED <<isMonitoring, memoryIntervals, metricsMemory, monitorCalls>>

\* an interval timer of monitorMemory fires
MemoryTimer(heap) ==
    /\ memoryIntervals > 0
    /\ metricsMemory' = heap
    /\ UNCHANGED <<isMonitoring, memoryIntervals, perfNow, frameCount,
                   lastTime, metricsFps, fpsHistory, rafCallbacks,
                   frameIncrements, frames, monitorCalls>>

\* for how many seconds the monitor has been running: just started, or one
\* sample short of a full ring
RingSeconds == {0, FpsHistoryMax - 1}

\* a monitor that was started and has taken a sample each second since, the
\* samples numbered in arrival order
MonitorRunningInit ==
    \E n \in RingSeconds :
        /\ isMonitoring = TRUE
        /\ memoryIntervals = MonitorMemoryTimers
        /\ perfNow = n * FpsWindow
        /\ lastTime = perfNow
        /\ frameCount = IF n = 0 THEN 1 ELSE 0
        /\ fpsHistory = [k \in 1..n |-> k]
        /\ metricsFps = n
        /\ metricsMemory = 0
        /\ rafCallbacks = 1
        /\ frameIncrements = IF n = 0 THEN 0 ELSE 1
        /\ frames = 0
        /\ monitorCalls = 1

MonitorInit ==
    /\ perfNow = 0
    /\ frameCount = 0
    /\ lastTime = 0
    /\ metricsFps = 0
    /\ metricsMemory = 0
    /\ fpsHistory = <<>>
    /\ rafCallbacks = 0
    /\ frameIncrements = 0
    /\ frames = 0
    /\ monitorCalls = 0

(***************************************************************************)
(* The display cap of renderClusters and renderMarkers, and _samplePoints. *)
(***************************************************************************)
sampleVars == <<sMethod, sPoints, sMaxPoints, sDisplay, sCalls>>

MaxSampleLen == 6
MaxSampleCap == 4
MaxSampleCalls == 2

\* the point sets tried: distinct points, so that a point names its index
SamplePointSets == {[k \in 1..n |-> 100 + k] : n \in 0..MaxSampleLen}
\* the options tried: {} and {maxPoints: n}
SampleOptions == 0..MaxSampleCap
CappedMethods == {"renderClusters", "renderMarkers"}

RECURSIVE SampleLoop(_, _, _, _)
\* the for loop of _samplePoints from the top of iteration i: every array
\* it can return, over the values of Math.floor(Math.random() * (i + 1))
SampleLoop(points, maxPoints, sampled, i) ==
    IF ~(i < Len(points) /\ Len(sampled) < maxPoints)
    THEN {sampled}
    ELSE IF i < maxPoints
    THEN SampleLoop(points, maxPoints, Append(sampled, points[i + 1]), i + 1)
    ELSE UNION {SampleLoop(points, maxPoints,
                           IF j < maxPoints
                           THEN [sampled EXCEPT ![j + 1] = points[i + 1]]
                           ELSE sampled,
                           i + 1) : j \in 0..i}

\* _samplePoints(points, maxPoints): the arrays it can return
SamplePoints(points, maxPoints) ==
    IF Len(points) <= maxPoints THEN {points}
    ELSE SampleLoop(points, maxPoints, <<>>, 0)

\* a render method that never samples
ExceedsCapNever(points, maxPoints) == FALSE

\* points.length > maxPoints
ExceedsCap(points, maxPoints) == Len(points) > maxPoints

\* renderClusters / renderMarkers up to displayPoints
DisplayPoints(method, points, options) ==
    /\ sCalls < MaxSampleCalls
    /\ sCalls' = sCalls + 1
    /\ sMethod' = method
    /\ sPoints' = points
    /\ sMaxPoints' = MaxPoints(method, options)
    /\ sDisplay' \in IF ExceedsCap(points, sMaxPoints')
                     THEN SamplePoints(points, sMaxPoints')
                     ELSE {points}

SampleInit ==
    /\ sMethod = "none"
    /\ sPoints = <<>>
    /\ sMaxPoints = 0
    /\ sDisplay = <<>>
    /\ sCalls = 0

(***************************************************************************)
(* GeointMapApp geofences: onDrawCreate, onDrawUpdate, and the data set of *)
(* generateMap.                                                            *)
(***************************************************************************)
geofenceVars == <<geofenceZones, drawEvents>>

MaxDrawEvents == 2

\* the polygons drawn: rectangles in degrees
Polygons ==
    {[south |-> 10, north |-> 30, west |-> 70, east |-> 80],
     [south |-> 85, north |-> 100, west |-> 0 - 190, east |-> 100],
     [south |-> 40, north |-> 50, west |-> 0, east |-> 10]}

\* the responses tried with geofences: points with numeric coordinates
GeofenceDatasets ==
    {q \in FetchedSets : \A k \in 1..Len(q) : q[k].numeric}

\* turf.booleanPointInPolygon(turf.point([lon, lat]), turf.polygon(...))
BooleanPointInPolygon(pt, polygon) ==
    /\ polygon.south <= pt.lat /\ pt.lat <= polygon.north
    /\ polygon.west <= pt.lon /\ pt.lon <= polygon.east

\* countPointsInGeofence(geometry, points)
CountPointsInGeofence(geometry, points) ==
    Cardinality({k \in 1..Len(points) : BooleanPointInPolygon(points[k], geometry)})

\* this.currentData is set (by generateMap)
HasCurrentData == gApp = "GeointMapApp"
\* this.currentData.points
CurrentDataPoints == IF HasCurrentData THEN gFetched ELSE <<>>

\* this.currentData ? this.countPointsInGeofence(geometry, points) : 0
ZonePoints(geometry) ==
    IF HasCurrentData THEN CountPointsInGeofence(geometry, CurrentDataPoints)
    ELSE 0

\* onDrawCreate(e): a polygon was drawn
OnDrawCreate(polygon) ==
    /\ drawEvents < MaxDrawEvents
    /\ drawEvents' = drawEvents + 1
    /\ geofenceZones' = Append(geofenceZones,
          [feature |-> polygon, points |-> ZonePoints(polygon),
           drawn |-> polygon])

\* onDrawUpdate(e): the polygon of zone z was reshaped. The zone is looked up
\* by g.id === feature.id, where g.id is the Date.now() of its creation and
\* feature.id is the drawing library's; found is whether the lookup succeeds
OnDrawUpdate(z, polygon, found) ==
    /\ drawEvents < MaxDrawEvents
    /\ z \in 1..Len(geofenceZones)
    /\ drawEvents' = drawEvents + 1
    /\ geofenceZones' =
          IF found
          THEN [geofenceZones EXCEPT ![z] =
                   [feature |-> polygon, points |-> ZonePoints(polygon),
                    drawn |-> polygon]]
          ELSE [geofenceZones EXCEPT ![z].drawn = polygon]

\* generateMap() of GeointMapApp with zones drawn: this.currentData = data;
\* nothing in it or in initializeMap / updateMap touches geofenceZones
GeofenceGenerateMap(points) ==
    /\ GeointGenerateMap(points)
    /\ UNCHANGED geofenceVars

GeofenceInit ==
    /\ geofenceZones = <<>>
    /\ drawEvents = 0

(***************************************************************************)
(* ShaktiChatbot: updateStateSpace.                                        *)
(***************************************************************************)
stateSpaceVars == <<contextHistory, semanticMemory, exchanges>>

MaxExchanges == 12

\* how many entities extractKeyEntities finds in an exchange: the words
\* longer than 5 characters, 3 at most
EntityCounts == {0, 3}

\* a sequence kept whole
SliceKeepAll(q, n) == q

\* q.slice(-n)
SliceEnd(q, n) ==
    IF Len(q) <= n THEN q ELSE [k \in 1..n |-> q[Len(q) - n + k]]

\* extractKeyEntities(userMsg, assistantMsg) for exchange x
ExtractKeyEntities(x) == [j \in 1..x.entities |-> <<x.id, j>>]

\* updateStateSpace(userMsg, assistantMsg) on the exchange x
UpdateStateSpace(x) ==
    /\ contextHistory' = SliceEnd(Append(contextHistory, x), 10)
    /\ semanticMemory' = SliceEnd(semanticMemory \o ExtractKeyEntities(x), 20)
    /\ exchanges' = Append(exchanges, x)

\* a call of updateStateSpace with the next exchange
UpdateStateSpaceCall(entities) ==
    /\ Len(exchanges) < MaxExchanges
    /\ UpdateStateSpace([id |-> Len(exchanges) + 1, entities |-> entities])

StateSpaceInit ==
    /\ contextHistory = <<>>
    /\ semanticMemory = <<>>
    /\ exchanges = <<>>

(***************************************************************************)
(* ShaktiChatbot: handleSend, in the component of map-init.js and in the   *)
(* component of part_000.                                                  *)
(***************************************************************************)
chatVars == <<chatApp, loading, messages, pendingReplies, sends>>

MaxSends == 3

ChatApps == {"map-init", "part_000"}
\* how the reply to a message is produced: by the trained responses after
\* 500 ms, or by the API
ReplyKinds == {"trained", "api"}

\* handleSend with a non-empty message
HandleSend(app, kind, entities) ==
    /\ sends < MaxSends
    /\ chatApp \in {"none", app}
    /\ chatApp' = app
    /\ sends' = sends + 1
    /\ IF loading
       THEN \* if (!input.trim() || loading) return
            UNCHANGED <<loading, messages, pendingReplies>>
       ELSE LET reply == [send |-> sends + 1, kind |-> kind,
                          entities |-> entities]
            IN
            /\ messages' = Append(messages, [role |-> "user", send |-> sends + 1])
            /\ pendingReplies' = Append(pendingReplies, reply)
            /\ loading' = IF app = "map-init" /\ kind = "trained"
                          THEN \* setTimeout(...); return: the finally block
                               \* runs setLoading(false) at once
                               FALSE
                          ELSE TRUE
    /\ UNCHANGED stateSpaceVars

\* pendingReplies without its element r
WithoutReply(r) ==
    SubSeq(pendingReplies, 1, r - 1)
       \o SubSeq(pendingReplies, r + 1, Len(pendingReplies))

\* the timer of a trained reply fires, or callAPI returns: the reply is
\* appended, updateStateSpace is called, and setLoading(false)
ReplyArrives(r) ==
    /\ r \in 1..Len(pendingReplies)
    /\ LET reply == pendingReplies[r] IN
       /\ messages' = Append(messages, [role |-> "assistant", send |-> reply.send])
       /\ UpdateStateSpace([id |-> Len(exchanges) + 1,
                            entities |-> reply.entities])
    /\ pendingReplies' = WithoutReply(r)
    /\ loading' = FALSE
    /\ UNCHANGED <<chatApp, sends>>

\* callAPI throws: the catch block appends the error message, then
\* setLoading(false)
ReplyFails(r) ==
    /\ r \in 1..Len(pendingReplies)
    /\ pendingReplies[r].kind = "api"
    /\ messages' = Append(messages, [role |-> "error", send |-> pendingReplies[r].send])
    /\ pendingReplies' = WithoutReply(r)
    /\ loading' = FALSE
    /\ UNCHANGED <<chatApp, sends, stateSpaceVars>>

ChatInit ==
    /\ chatApp = "none"
    /\ loading = FALSE
    \* the greeting of the assistant
    /\ messages = <<[role |-> "assistant", send |-> 0]>>
    /\ pendingReplies = <<>>
    /\ sends = 0

(***************************************************************************)
(* FastMapApp and GeointMapApp: the generate button, the data type select  *)
(* and the fetch of generateMap.  Both classes have the same code here.    *)
(***************************************************************************)
buttonVars == <<dataTypeSelect, generateBtnDisabled, fetching, uiEvents>>

MaxUiEvents == 8

Placeholder == "Choose data type..."
DataTypes == {"cdr", "ipdr"}
SelectValues == DataTypes \cup {Placeholder}

\* updateGenerateButtonState: generateBtn.disabled = !hasDataType
HasDataType(value) == value # Placeholder

\* the 'change' listener of the select: updateGenerateButtonState
DataTypeChange(value) ==
    /\ uiEvents < MaxUiEvents
    /\ value # dataTypeSelect
    /\ uiEvents' = uiEvents + 1
    /\ dataTypeSelect' = value
    /\ generateBtnDisabled' = ~HasDataType(value)
    /\ UNCHANGED fetching

\* setLoadingState(loading): generateBtn.disabled = loading
SetLoadingState(isLoading) == generateBtnDisabled' = isLoading

\* the 'click' listener of the button: generateMap up to its await fetch
GenerateClick ==
    /\ uiEvents < MaxUiEvents
    /\ uiEvents' = uiEvents + 1
    /\ UNCHANGED dataTypeSelect
    /\ IF generateBtnDisabled \/ ~HasDataType(dataTypeSelect)
       THEN \* if (generateBtn.disabled) return; 'Please select a valid data
            \* type'
            UNCHANGED <<generateBtnDisabled, fetching>>
       ELSE /\ SetLoadingState(TRUE)
            /\ fetching' = Append(fetching, dataTypeSelect)

\* generateMap after its await: the fetch of position f resolved or rejected;
\* on both paths the finally block runs setLoadingState(false)
FetchSettles(f) ==
    /\ f \in 1..Len(fetching)
    /\ fetching' = SubSeq(fetching, 1, f - 1) \o SubSeq(fetching, f + 1, Len(fetching))
    /\ SetLoadingState(FALSE)
    /\ UNCHANGED <<dataTypeSelect, uiEvents>>

\* init: setupEventListeners, updateGenerateButtonState
ButtonInit ==
    /\ dataTypeSelect = Placeholder
    /\ generateBtnDisabled = ~HasDataType(Placeholder)
    /\ fetching = <<>>
    /\ uiEvents = 0

(***************************************************************************)
(* MapTileCache of map-service-worker.js.  Tile keys are numbered; an      *)
(* entry keeps its timestamp (the response plays no part in the bounds).   *)
(***************************************************************************)
tileVars == <<tileNow, tileCacheMap, accessOrder, tileOps>>

TILE_CACHE_LIMIT == 1000
TILE_CACHE_EXPIRY == 7 * 24 * 60 * 60 * 1000

MaxTileOps == 5
\* the clock stops once the entries of instant 0 have expired
MaxTileClock == TILE_CACHE_EXPIRY + MaxTileOps

\* the cache of a worker that has just started, and of one that has cached
\* TILE_CACHE_LIMIT - 1 tiles at instant 0
TileFill == {0, TILE_CACHE_LIMIT - 1}
\* keys the operations are called with: the least and the most recently
\* used tile of the filled cache, and tiles not cached yet
PutKeys == {1, TILE_CACHE_LIMIT, TILE_CACHE_LIMIT + 1, TILE_CACHE_LIMIT + 2}
GetKeys == {1, TILE_CACHE_LIMIT - 1, TILE_CACHE_LIMIT}
TileTickSteps == {1, TILE_CACHE_EXPIRY}

\* _updateAccessOrder(key): indexOf, splice, push
UpdateAccessOrder(order, key) ==
    Append(SelectSeq(order, LAMBDA k : k # key), key)

\* get(key)
TileGet(key) ==
    /\ tileOps < MaxTileOps
    /\ tileOps' = tileOps + 1
    /\ UNCHANGED tileNow
    /\ IF key \in DOMAIN tileCacheMap
          /\ tileNow - tileCacheMap[key].timestamp < TILE_CACHE_EXPIRY
       THEN /\ accessOrder' = UpdateAccessOrder(accessOrder, key)
            /\ UNCHANGED tileCacheMap
       ELSE \* if (entry) this.cache.delete(key)
            /\ tileCacheMap' = MapDelete(tileCacheMap, key)
            /\ UNCHANGED accessOrder

\* put(key, response)
TilePut(key) ==
    /\ tileOps < MaxTileOps
    /\ tileOps' = tileOps + 1
    /\ UNCHANGED tileNow
    /\ LET full == Cardinality(DOMAIN tileCacheMap) >= TILE_CACHE_LIMIT
           \* accessOrder.shift(): undefined on an empty array
           shifted == full /\ accessOrder # <<>>
           evicted == IF shifted
                      THEN MapDelete(tileCacheMap, Head(accessOrder))
                      ELSE tileCacheMap
           order == IF shifted THEN Tail(accessOrder) ELSE accessOrder
       IN
       /\ tileCacheMap' = MapSet(evicted, key, [timestamp |-> tileNow])
       /\ accessOrder' = UpdateAccessOrder(order, key)

\* clear()
TileClear ==
    /\ tileOps < MaxTileOps
    /\ tileOps' = tileOps + 1
    /\ tileCacheMap' = EmptyMap
    /\ accessOrder' = <<>>
    /\ UNCHANGED tileNow

\* the clock of the worker advances
TileTick(d) ==
    /\ tileOps < MaxTileOps
    /\ tileNow + d <= MaxTileClock
    /\ tileOps' = tileOps + 1
    /\ tileNow' = tileNow + d
    /\ UNCHANGED <<tileCacheMap, accessOrder>>

\* constructor
TileInit ==
    /\ tileNow = 0
    /\ tileCacheMap = EmptyMap
    /\ accessOrder = <<>>
    /\ tileOps = 0

\* the worker after n put calls with distinct keys at instant 0
TileFilledInit ==
    \E n \in TileFill :
        /\ tileNow = 0
        /\ tileCacheMap = [k \in 1..n |-> [timestamp |-> 0]]
        /\ accessOrder = [k \in 1..n |-> k]
        /\ tileOps = 0

(***************************************************************************)
(* GeointMapApp.addTrajectoryLayer.  A point is its input index (standing  *)
(* for lon and lat) and its timestamp; NoTimestamp is a point without one. *)
(***************************************************************************)
trajectoryVars == <<trajectoryInput, sortedPoints, trajectoryCalls>>

MaxTrajectoryLen == 3
MaxTrajectoryCalls == 2

HourMs == 3600000
\* Date.now() when the call starts
TrajectoryNow == 5 * HourMs
\* timestamps of the input: none, 0, one that equals a synthesized timestamp,
\* and a later one
InputTimestamps == {NoTimestamp, 0, TrajectoryNow - 2 * HourMs, TrajectoryNow}
TrajectoryInputs ==
    UNION {[1..n -> InputTimestamps] : n \in 0..MaxTrajectoryLen}

\* point.timestamp || fallback: undefined and 0 are falsy
OrElse(timestamp, fallback) ==
    IF timestamp = NoTimestamp \/ timestamp = 0 THEN fallback ELSE timestamp

\* Date.now() in the callback of element index: the clock passes one
\* millisecond before element tickAt (never, when tickAt is past the end)
DateNow(index, tickAt) == IF index >= tickAt THEN TrajectoryNow + 1 ELSE TrajectoryNow

\* points.map((point, index) => ({...point, timestamp: ...})), index from 1
WithTimestamps(points, tickAt) ==
    [i \in 1..Len(points) |->
        [id |-> i,
         timestamp |-> OrElse(points[i],
                              DateNow(i, tickAt) - (Len(points) - (i - 1)) * HourMs)]]

\* insertion of p after the elements that do not compare greater
InsertSorted(q, p) ==
    LET before == {k \in 1..Len(q) : \A j \in 1..k : q[j].timestamp - p.timestamp <= 0}
        n == Cardinality(before)
    IN SubSeq(q, 1, n) \o <<p>> \o SubSeq(q, n + 1, Len(q))

\* the sort left out: the points stay in input order
SortKeepOrder(q) == q

RECURSIVE SortByTimestamp(_)
\* .sort((a, b) => a.timestamp - b.timestamp): a stable sort
SortByTimestamp(q) ==
    IF q = <<>> THEN <<>>
    ELSE InsertSorted(SortByTimestamp(SubSeq(q, 1, Len(q) - 1)), q[Len(q)])

\* addTrajectoryLayer(points)
AddTrajectoryLayer(points, tickAt) ==
    /\ trajectoryCalls < MaxTrajectoryCalls
    /\ trajectoryCalls' = trajectoryCalls + 1
    /\ IF points = <<>>
       THEN \* if (!points || points.length === 0) return
            UNCHANGED <<trajectoryInput, sortedPoints>>
       ELSE /\ trajectoryInput' = points
            /\ sortedPoints' = SortByTimestamp(WithTimestamps(points, tickAt))

TrajectoryInit ==
    /\ trajectoryInput = <<>>
    /\ sortedPoints = <<>>
    /\ trajectoryCalls = 0

(***************************************************************************)
(* Specifications: one per component; the other components stand still.    *)
(***************************************************************************)
vars == <<loaderVars, cacheVars, batchVars, renderOnlyVars, generateVars,
          monitorOnlyVars, sampleVars, geofenceVars, stateSpaceVars,
          chatVars, buttonVars, tileVars, trajectoryVars>>

\* the renderer's state apart from the two fields of its performance monitor
renderRestVars == <<rMap, rDisposed, disposeCalls, initState, mapLayers,
                    mapSources, rLayers, renderCalls, renderMicro,
                    renderTimers>>

OnlyLoader == UNCHANGED <<cacheVars, batchVars, renderOnlyVars, generateVars,
                          monitorOnlyVars, sampleVars, geofenceVars, stateSpaceVars, chatVars, buttonVars, tileVars, trajectoryVars>>
OnlyCache == UNCHANGED <<loaderVars, batchVars, renderOnlyVars, generateVars,
                         monitorOnlyVars, sampleVars, geofenceVars, stateSpaceVars, chatVars, buttonVars, tileVars, trajectoryVars>>
OnlyBatch == UNCHANGED <<loaderVars, cacheVars, renderOnlyVars, generateVars,
                         monitorOnlyVars, sampleVars, geofenceVars, stateSpaceVars, chatVars, buttonVars, tileVars, trajectoryVars>>
OnlyRender == UNCHANGED <<loaderVars, batchVars, generateVars, monitorOnlyVars, sampleVars, geofenceVars, stateSpaceVars, chatVars, buttonVars, tileVars, trajectoryVars>>
OnlyGenerate == UNCHANGED <<loaderVars, cacheVars, batchVars, renderOnlyVars,
                            monitorOnlyVars, sampleVars, geofenceVars, stateSpaceVars, chatVars, buttonVars, tileVars, trajectoryVars>>
OnlyMonitor == UNCHANGED <<loaderVars, cacheVars, batchVars, renderRestVars,
                           generateVars, sampleVars, geofenceVars, stateSpaceVars, chatVars, buttonVars, tileVars, trajectoryVars>>
OnlySample == UNCHANGED <<loaderVars, cacheVars, batchVars, renderOnlyVars,
                          generateVars, monitorOnlyVars, geofenceVars, stateSpaceVars, chatVars, buttonVars, tileVars, trajectoryVars>>
\* a step of the geofence model leaves all but generateVars and geofenceVars
OnlyGeofence == UNCHANGED <<loaderVars, cacheVars, batchVars, renderOnlyVars,
                            monitorOnlyVars, sampleVars, stateSpaceVars, chatVars, buttonVars, tileVars, trajectoryVars>>
OnlyStateSpace == UNCHANGED <<loaderVars, cacheVars, batchVars, renderOnlyVars,
                              generateVars, monitorOnlyVars, sampleVars,
                              geofenceVars, chatVars, buttonVars, tileVars, trajectoryVars>>
\* a step of the chat model leaves all but chatVars and stateSpaceVars
OnlyChat == UNCHANGED <<loaderVars, cacheVars, batchVars, renderOnlyVars,
                        generateVars, monitorOnlyVars, sampleVars,
                        geofenceVars, buttonVars, tileVars, trajectoryVars>>
OnlyButton == UNCHANGED <<loaderVars, cacheVars, batchVars, renderOnlyVars,
                          generateVars, monitorOnlyVars, sampleVars,
                          geofenceVars, stateSpaceVars, chatVars, tileVars, trajectoryVars>>
OnlyTile == UNCHANGED <<loaderVars, cacheVars, batchVars, renderOnlyVars,
                        generateVars, monitorOnlyVars, sampleVars,
                        geofenceVars, stateSpaceVars, chatVars, buttonVars,
                        trajectoryVars>>
OnlyTrajectory == UNCHANGED <<loaderVars, cacheVars, batchVars, renderOnlyVars,
                              generateVars, monitorOnlyVars, sampleVars,
                              geofenceVars, stateSpaceVars, chatVars,
                              buttonVars, tileVars>>

LoaderNext ==
    \/ \E n \in ModuleNames : LazyLoadModule(n) /\ OnlyLoader
    \/ \E n \in ModuleNames : AppLoadModule(n) /\ OnlyLoader
    \/ \E p \in 1..Len(promises) : ScriptOnload(p) /\ OnlyLoader
    \/ \E p \in 1..Len(promises) : ScriptOnerror(p) /\ OnlyLoader
    \/ LoaderMicrotask /\ OnlyLoader

CacheNext ==
    \/ \E k \in CacheKeys, o \in DataObjects : SetData(k, o) /\ OnlyCache
    \/ \E k \in CacheKeys : GetData(k) /\ OnlyCache
    \/ \E k \in CacheKeys, v \in CacheValues : SetMapInstance(k, v) /\ OnlyCache
    \/ \E k \in CacheKeys : GetMapInstance(k) /\ OnlyCache
    \/ \E k \in CacheKeys, v \in CacheValues : SetVisualization(k, v) /\ OnlyCache
    \/ \E k \in CacheKeys : GetVisualization(k) /\ OnlyCache
    \/ CacheClear /\ OnlyCache
    \/ \E d \in TickSteps : CacheTick(d) /\ OnlyCache

BatchNext ==
    \/ \E in \in BatchInputs, onProgress \in BOOLEAN, failAt \in FailChoices :
          ProcessBatch(in[1], in[2], onProgress, failAt) /\ OnlyBatch
    \/ \E in \in BatchInputs, failAt \in FailChoices :
          ProcessLargeDataset(in[1], failAt) /\ OnlyBatch
    \/ BatchYieldResume /\ OnlyBatch
    \/ BatchChunkResume /\ OnlyBatch

RenderNext ==
    \/ \E d \in Datasets, t \in RenderTypes, o \in RenderOptions :
          RenderVisualization(d, t, o) /\ OnlyRender
    \/ RenderMicrotask /\ OnlyRender
    \/ RenderTimer /\ OnlyRender
    \/ \E constructed \in BOOLEAN : Initialize(constructed) /\ OnlyRender
    \/ MapLoad /\ OnlyRender
    \/ MapError /\ OnlyRender
    \/ Dispose /\ OnlyRender
    \/ \E d \in TickSteps : RenderTick(d) /\ OnlyRender

GenerateNext ==
    \/ \E points \in FetchedSets : MapAppGenerateMap(points) /\ OnlyGenerate
    \/ MapAppGenerateCached /\ OnlyGenerate
    \/ \E points \in FetchedSets : GeointGenerateMap(points) /\ OnlyGenerate
    \/ MapAppGenerateError /\ OnlyGenerate
    \/ \E points \in FetchedSets : FastGenerateMap(points) /\ OnlyGenerate
    \/ \E app \in {"FastMapApp", "GeointMapApp"} :
          FastGenerateError(app) /\ OnlyGenerate

MonitorNext ==
    \/ StartMonitoring /\ OnlyMonitor
    \/ StopMonitoring /\ OnlyMonitor
    \/ \E step \in FrameSteps : AnimationFrame(step) /\ OnlyMonitor
    \/ \E heap \in HeapSizes : MemoryTimer(heap) /\ OnlyMonitor

SampleNext ==
    \E method \in CappedMethods, points \in SamplePointSets,
       options \in SampleOptions :
        DisplayPoints(method, points, options) /\ OnlySample

GeofenceNext ==
    \/ \E polygon \in Polygons :
          OnDrawCreate(polygon) /\ UNCHANGED generateVars /\ OnlyGeofence
    \/ \E z \in 1..Len(geofenceZones), polygon \in Polygons, found \in BOOLEAN :
          OnDrawUpdate(z, polygon, found) /\ UNCHANGED generateVars
          /\ OnlyGeofence
    \/ \E points \in GeofenceDatasets :
          GeofenceGenerateMap(points) /\ OnlyGeofence

StateSpaceNext ==
    \E entities \in EntityCounts : UpdateStateSpaceCall(entities) /\ OnlyStateSpace

ChatNext ==
    \/ \E app \in ChatApps, kind \in ReplyKinds, entities \in EntityCounts :
          HandleSend(app, kind, entities) /\ OnlyChat
    \/ \E r \in 1..Len(pendingReplies) : ReplyArrives(r) /\ OnlyChat
    \/ \E r \in 1..Len(pendingReplies) : ReplyFails(r) /\ OnlyChat

ButtonNext ==
    \/ \E value \in SelectValues : DataTypeChange(value) /\ OnlyButton
    \/ GenerateClick /\ OnlyButton
    \/ \E f \in 1..Len(fetching) : FetchSettles(f) /\ OnlyButton

TileNext ==
    \/ \E key \in GetKeys : TileGet(key) /\ OnlyTile
    \/ \E key \in PutKeys : TilePut(key) /\ OnlyTile
    \/ TileClear /\ OnlyTile
    \/ \E d \in TileTickSteps : TileTick(d) /\ OnlyTile

TrajectoryNext ==
    \E points \in TrajectoryInputs, tickAt \in 1..(MaxTrajectoryLen + 1) :
        AddTrajectoryLayer(points, tickAt) /\ OnlyTrajectory

Init ==
    /\ StateSpaceInit /\ ChatInit /\ ButtonInit /\ TileInit /\ TrajectoryInit
    /\ LoaderInit /\ CacheInit /\ BatchInit /\ RenderInit /\ GenerateInit
    /\ MonitorInit /\ SampleInit /\ GeofenceInit

SpecLoader == Init /\ [][LoaderNext]_vars

SpecCache == Init /\ [][CacheNext]_vars

SpecBatch == Init /\ [][BatchNext]_vars

SpecRender == Init /\ [][RenderNext]_vars

SpecMonitor == Init /\ [][MonitorNext]_vars

\* the monitor from a ring that is nearly full
RingInit ==
    /\ LoaderInit /\ CacheInit /\ BatchInit /\ RenderRestInit /\ GenerateInit
    /\ SampleInit /\ GeofenceInit /\ MonitorRunningInit /\ StateSpaceInit
    /\ ChatInit /\ ButtonInit /\ TileInit /\ TrajectoryInit

SpecMonitorRing == RingInit /\ [][MonitorNext]_vars

\* the tile cache of a fresh worker, or of one that is nearly full
TileCacheInit ==
    /\ LoaderInit /\ CacheInit /\ BatchInit /\ RenderInit /\ GenerateInit
    /\ MonitorInit /\ SampleInit /\ GeofenceInit /\ StateSpaceInit
    /\ ChatInit /\ ButtonInit /\ TileFilledInit /\ TrajectoryInit

SpecTileCache == TileCacheInit /\ [][TileNext]_vars

SpecTrajectory == Init /\ [][TrajectoryNext]_vars

SpecSample == Init /\ [][SampleNext]_vars

SpecGeofence == Init /\ [][GeofenceNext]_vars

SpecStateSpace == Init /\ [][StateSpaceNext]_vars

SpecButton == Init /\ [][ButtonNext]_vars

SpecChat == Init /\ [][ChatNext]_vars

SpecGenerate == Init /\ [][GenerateNext]_vars

\* the event loop runs every queued microtask and fires every pending timer,
\* and a backend that is loading ends up signalling load or failing
SpecRenderFair ==
    /\ Init /\ [][RenderNext]_vars
    /\ WF_vars(RenderMicrotask /\ OnlyRender)
    /\ WF_vars(RenderTimer /\ OnlyRender)
    /\ WF_vars((MapLoad \/ MapError) /\ OnlyRender)

(***************************************************************************)
(* Properties of the module loaders.                                       *)
(***************************************************************************)
PromisesOf(l, n) ==
    {p \in 1..Len(promises) : promises[p].loader = l /\ promises[p].name = n}
CallsOf(l, n) ==
    {c \in 1..Len(loadCalls) : loadCalls[c].loader = l /\ loadCalls[c].name = n}
InFlight(l) == IF l = "LazyLoader" THEN loadingPromises ELSE modulePromises

\* C1: single-flight loading. For every loader and module name at most one
\* underlying load is outstanding, and as long as no load of the name has
\* completed, the calls made so far (one or more) started exactly one
\* underlying load.
C1_SingleFlight ==
    \A l \in Loaders, n \in ModuleNames :
        /\ Cardinality({p \in PromisesOf(l, n) : ~Settled(p)}) <= 1
        /\ (\A p \in PromisesOf(l, n) : ~Settled(p))
              => Cardinality(PromisesOf(l, n))
                    = (IF CallsOf(l, n) = {} THEN 0 ELSE 1)

\* three concurrent calls of one name share one outstanding load, in each loader
C1_Witness ==
    \E l \in Loaders, n \in ModuleNames :
        /\ Cardinality(CallsOf(l, n)) >= 3
        /\ \A c \in CallsOf(l, n) : loadCalls[c].state = "pending"
        /\ Cardinality(PromisesOf(l, n)) = 1

\* C2: all callers that share one successful underlying load resolve with
\* the same value, the caller that started the load included.
C2_SameResolvedModule ==
    \A c1, c2 \in 1..Len(loadCalls) :
        (/\ loadCalls[c1].promise # NoPromise
         /\ loadCalls[c1].promise = loadCalls[c2].promise
         /\ loadCalls[c1].state = "fulfilled"
         /\ loadCalls[c2].state = "fulfilled")
        => loadCalls[c1].value = loadCalls[c2].value

\* C3: a failed load does not poison the name. Once the reactions to a
\* rejected load have run, every call that waited on it is rejected, the
\* name is unrequested again (not in flight, not loaded), and no later call
\* is handed the rejected load.
C3_FailedLoadNotPoisoning ==
    \A p \in 1..Len(promises) :
        promises[p].state = "rejected" =>
            LET l == promises[p].loader
                n == promises[p].name
            IN
            /\ \A c \in 1..Len(loadCalls) :
                  loadCalls[c].promise = p => ~loadCalls[c].joinedSettled
            /\ loaderMicro = <<>> =>
                  /\ \A c \in 1..Len(loadCalls) :
                        loadCalls[c].promise = p => loadCalls[c].state = "rejected"
                  /\ ~(n \in DOMAIN InFlight(l) /\ InFlight(l)[n] = p)

(***************************************************************************)
(* Properties of CacheManager.                                             *)
(***************************************************************************)
StoreHas(store, k) ==
    CASE store = "data" -> k \in DOMAIN dataCache
      [] store = "map" -> k \in DOMAIN mapCache
      [] OTHER -> k \in DOMAIN visualizationCache

\* C4: TTL expiration in each of the three stores. A get issued in the
\* same instant as the last set of its key returns the value set; a get
\* issued once the TTL has elapsed since that set returns absent and leaves
\* the key removed.
C4_TtlExpiration ==
    (lastCacheOp.op = "get" /\ lastSet[lastCacheOp.store][lastCacheOp.key] # None)
    => LET s == lastSet[lastCacheOp.store][lastCacheOp.key] IN
       /\ lastCacheOp.at = s.time => lastCacheOp.result = s.value
       /\ lastCacheOp.at - s.time >= CACHE_DURATION =>
             /\ lastCacheOp.result = Absent
             /\ ~StoreHas(lastCacheOp.store, lastCacheOp.key)

(***************************************************************************)
(* Properties of BatchProcessor.                                           *)
(***************************************************************************)
\* C5: batch order preservation. Whatever the chunk size, a finished
\* processBatch call with an element-wise transform returns the transform
\* of each input element, in the input's order (so as many as the input).
C5_BatchOrderPreserved ==
    (bPc = "done" /\ bEntry = "processBatch")
    => /\ Len(bOut) = Len(bItems)
       /\ \A j \in 1..Len(bItems) : bOut[j] = Feature(bItems[j])

\* a finished processBatch whose last chunk is shorter than the others
C5_Witness ==
    /\ bPc = "done" /\ bEntry = "processBatch"
    /\ Len(bChunks) >= 2
    /\ Len(bChunks[Len(bChunks)]) < Len(bChunks[1])
    /\ bItems[1] # bItems[Len(bItems)]

\* a call that went through the chunk loop with chunks of 1000 items
ChunkedBy1000 ==
    \/ bEntry = "processLargeDataset"
    \/ bEntry = "processBatch" /\ Len(bItems) > 0 /\ Len(bChunks[1]) = LargeChunkSize

\* C6 as stated: processing 10,000 or more items in chunks of 1,000 has
\* yielded at least once by the time the result is returned.
C6_YieldsFrom10000 ==
    (bPc = "done" /\ Len(bItems) >= LargeThreshold /\ ChunkedBy1000)
    => bYields >= 1

\* C6 as amended: processing more than 10,000 items in chunks of 1,000 has
\* yielded at least once by the time the result is returned.
C6_YieldsAbove10000 ==
    (bPc = "done" /\ Len(bItems) > LargeThreshold /\ ChunkedBy1000)
    => bYields >= 1

\* a finished call over 10,001 items that yielded
C6_Witness ==
    /\ bPc = "done"
    /\ Len(bItems) = LargeThreshold + 1
    /\ ChunkedBy1000
    /\ bYields >= 1

(***************************************************************************)
(* Properties of OptimizedMapRenderer.                                     *)
(***************************************************************************)
RenderIds == 1..Len(renderCalls)
LastRender == Len(renderCalls)
RenderMethods == {"renderHeatmap", "renderClusters", "renderMarkers"}

\* C7: a superseded render is never applied. No call installs its layers
\* and writes the visualization cache once a later renderVisualization call
\* has been issued.
C7_SupersededNeverApplied ==
    \A a \in RenderIds : ~renderCalls[a].superseded

\* the latest call was issued on a ready renderer after every earlier call
\* had run to its end, and has itself run to its end
SequentialLast ==
    /\ renderCalls # <<>>
    /\ renderCalls[LastRender].pc = "done"
    /\ renderCalls[LastRender].ready
    /\ ~renderCalls[LastRender].overlap
    /\ rMap = "ready"

\* C8: visualizations are superseded, never layered. Once a render of one
\* mode has completed, the backend holds no layer and no source of another
\* mode.
C8_SupersededNotLayered ==
    (SequentialLast /\ renderCalls[LastRender].outcome = "rendered")
    => LET m == MethodOf(renderCalls[LastRender].type) IN
       /\ mapLayers \subseteq LayersOf(m)
       /\ DOMAIN mapSources \subseteq {SourceOf(m)}

\* C9: a change of dataset supersedes the visualization. When a render of
\* a mode that has a render method has completed, the source of that mode
\* in the backend is built from the point set of that call.
C9_DatasetChangeSupersedes ==
    (SequentialLast /\ MethodOf(renderCalls[LastRender].type) \in RenderMethods)
    => LET src == SourceOf(MethodOf(renderCalls[LastRender].type)) IN
       /\ src \in DOMAIN mapSources
       /\ mapSources[src].data = renderCalls[LastRender].data

\* C10: cache-key determinism. Of two calls with the same mode, options and
\* dataset on a ready renderer, the second issued after the first has
\* finished and within the TTL, the first ran the transform and the second
\* is a visualization-cache hit that ran none.
C10_SecondCallHitsCache ==
    \A a, b \in RenderIds :
        (/\ a < b
         /\ ~renderCalls[b].overlap
         /\ renderCalls[a].data = renderCalls[b].data
         /\ renderCalls[a].type = renderCalls[b].type
         /\ renderCalls[a].options = renderCalls[b].options
         /\ renderCalls[a].ready /\ renderCalls[b].ready /\ ~rDisposed
         /\ renderCalls[b].issuedAt - renderCalls[a].issuedAt < CACHE_DURATION
         /\ renderCalls[b].pc = "done")
        => /\ renderCalls[a].transformed
           /\ renderCalls[b].hit = "hit"
           /\ ~renderCalls[b].transformed

\* C11: on a visualization-cache hit the cached descriptor is re-applied.
\* When a call that hit the cache has run to its end, every layer and the
\* source named in the cached descriptor are in the backend.
C11_CachedDescriptorReapplied ==
    (SequentialLast /\ renderCalls[LastRender].outcome = "hit")
    => LET v == Visualization(MethodOf(renderCalls[LastRender].type)) IN
       /\ v.layers \subseteq mapLayers
       /\ v.sourceId \in DOMAIN mapSources

\* C12: renderVisualization completes only after the render it wraps. Once
\* the caller of a call on a ready renderer has resumed from awaiting the returned promise, the wrapped
\* render has run to its end, and renderTime was taken at that end.
C12_CompletesAfterRender ==
    \A c \in RenderIds :
        (renderCalls[c].ready /\ renderCalls[c].awaited)
        => /\ renderCalls[c].pc = "done"
           /\ renderCalls[c].measuredAt = "done"

\* C13: a render never leaves the instance stuck. Every call issued on a
\* ready renderer eventually has run to its end (rendered, served from the
\* cache, or failed), with no continuation or timer of it left pending.
C13_RenderNeverStuck ==
    \A c \in 1..MaxRenders :
        (IF c \in RenderIds THEN renderCalls[c].ready ELSE FALSE)
        ~> (IF c \in RenderIds
            THEN /\ renderCalls[c].pc = "done"
                 /\ \A j \in 1..Len(renderMicro) : renderMicro[j] # <<"resume", c>>
                 /\ \A j \in 1..Len(renderTimers) : renderTimers[j] # c
            ELSE FALSE)

\* a call on a ready renderer that yielded to a timer and ran to its end
C13_Witness ==
    \E c \in RenderIds :
        /\ renderCalls[c].ready
        /\ renderCalls[c].yields >= 1
        /\ renderCalls[c].pc = "done"
        /\ renderCalls[c].outcome = "rendered"

\* C14: initialize always terminates. An initialize call that waits for the
\* backend eventually resolves (ready) or is rejected, unless the renderer
\* is disposed of in the meantime.
C14_InitializeTerminates ==
    (initState = "awaitLoad") ~> (initState \in {"resolved", "rejected"} \/ rDisposed)

\* C15: a layer-application failure is propagated. When adding the source
\* or a layer failed in a call (the error reached the render method's catch
\* block), the promise the caller holds is rejected.
C15_LayerFailurePropagated ==
    \A c \in RenderIds :
        renderCalls[c].outcome = "failed" => renderCalls[c].returned = "rejected"

\* C16: dispose is complete and idempotent. After one or more dispose
\* calls the backend handle is torn down, the three caches are empty and the
\* performance monitor is stopped, with no sampler of it left active; as
\* this fixes the state, a repeated dispose leaves it unchanged.
C16_DisposeComplete ==
    rDisposed
    => /\ rMap = "null"
       /\ mapLayers = {} /\ mapSources = EmptyMap
       /\ dataCache = EmptyMap /\ mapCache = EmptyMap
       /\ visualizationCache = EmptyMap
       /\ ~isMonitoring
       /\ memoryIntervals = 0

\* C17: if the transform fails on a chunk, processBatch fails as a whole.
\* A call rejected because the processor threw has returned no result, has
\* called the processor on no chunk after the failing one, and its
\* rejection names the index of the chunk that failed.
C17_TransformFailureFailsBatch ==
    (bPc = "rejected" /\ bEntry = "processBatch")
    => /\ bOut = <<>>
       /\ bFailAt = {bCalls - 1}
       /\ bError.chunkIndex = bFailAt

\* the first two parts of C17: no result and no later chunk
C17_NoPartialResult ==
    (bPc = "rejected" /\ bEntry = "processBatch")
    => /\ bOut = <<>>
       /\ bFailAt = {bCalls - 1}

\* the age of every entry of every store is at most the TTL
NoEntryOlderThanTtl ==
    /\ \A k \in DOMAIN dataCache : now - objTimestamp[dataCache[k]] <= CACHE_DURATION
    /\ \A k \in DOMAIN mapCache : now - mapCache[k].timestamp <= CACHE_DURATION
    /\ \A k \in DOMAIN visualizationCache :
          now - visualizationCache[k].timestamp <= CACHE_DURATION

\* C18: every set is followed by a cleanup pass. Right after a set on any
\* of the three stores has returned, no store holds an entry older than the
\* TTL.
C18_SetFollowedByCleanup ==
    (lastCacheOp.op = "set" /\ lastCacheOp.at = now) => NoEntryOlderThanTtl

\* C18 for setData alone, the one set that calls cleanup
C18_SetDataCleansUp ==
    (lastCacheOp.op = "set" /\ lastCacheOp.store = "data" /\ lastCacheOp.at = now)
    => NoEntryOlderThanTtl

\* the instant from which the entry of a key is no longer visible
ExpiryOf(store, k) ==
    CASE store = "data" -> objTimestamp[dataCache[k]] + CACHE_DURATION
      [] store = "map" -> mapCache[k].timestamp + CACHE_DURATION
      [] OTHER -> visualizationCache[k].timestamp + CACHE_DURATION

\* a step that is a get call
IsGetStep == cacheOps' = cacheOps + 1 /\ lastCacheOp'.op = "get"

\* C19: reads never extend the TTL. A get call adds no entry and leaves the
\* expiry instant of every entry that remains, in every store, as it was
\* (it only removes the entry it found expired).
C19_ReadsNeverExtendTtl ==
    [][IsGetStep =>
          /\ DOMAIN dataCache' \subseteq DOMAIN dataCache
          /\ DOMAIN mapCache' \subseteq DOMAIN mapCache
          /\ DOMAIN visualizationCache' \subseteq DOMAIN visualizationCache
          /\ \A st \in Stores, k \in CacheKeys :
                StoreHas(st, k)' => ExpiryOf(st, k)' = ExpiryOf(st, k)
      ]_vars

\* a get found an entry still visible some time after the set of its key
C19_Witness ==
    /\ lastCacheOp.op = "get"
    /\ lastCacheOp.result # Absent
    /\ lastSet[lastCacheOp.store][lastCacheOp.key] # None
    /\ lastCacheOp.at > lastSet[lastCacheOp.store][lastCacheOp.key].time
    /\ StoreHas(lastCacheOp.store, lastCacheOp.key)

(***************************************************************************)
(* Properties of generateMap.                                              *)
(***************************************************************************)
\* what a generateMap call has to hand on: the fetched points within range,
\* as they came and in their order
ValidFetched == FilterValid(gFetched)

\* C20: coordinate validation. The points handed to the map, and the copy
\* in the data cache, are exactly the fetched points within range, in
\* order; a data set without a valid point ends in an error.
C20_CoordinateValidation ==
    /\ gOutcome = "rendered" =>
          /\ gPipeline = ValidFetched
          /\ gCached # NotCached => gCached = ValidFetched
    /\ (gCalls > 0 /\ ValidFetched = <<>>) => gOutcome = "error"

\* C20 for MapApp alone: what a MapApp call hands to the map and keeps in
\* its cache are the valid points of the response, in order, and a response
\* without a valid point ends in an error
C20_MapAppValidates ==
    [][(gCalls' = gCalls + 1 /\ gApp' = "MapApp")
       => /\ gOutcome' = "rendered" =>
                \A j \in 1..Len(gPipeline') : ValidRange(gPipeline'[j])
          /\ gOutcome' = "rendered" =>
                gPipeline' = gCached' /\ gCached' \in {gCached, FilterValid(gFetched')}
          /\ (gCached = NotCached /\ FilterValid(gFetched') = <<>>)
                => gOutcome' = "error" /\ gPipeline' = gPipeline
      ]_vars


(***************************************************************************)
(* Properties of the loaders: the in-flight marker and memoization.        *)
(***************************************************************************)
\* the loadModule calls that started a load of the name and returned its
\* result
CompletedLoads(loader, name) ==
    {c \in 1..Len(loadCalls) :
        /\ loadCalls[c].loader = loader /\ loadCalls[c].name = name
        /\ loadCalls[c].role = "starter" /\ loadCalls[c].state = "fulfilled"}

\* the loaded set and the in-flight set of a loader
LoadedSet(loader) ==
    IF loader = "LazyLoader" THEN loadedModules ELSE DOMAIN modules
InFlightSet(loader) ==
    IF loader = "LazyLoader" THEN DOMAIN loadingPromises
    ELSE DOMAIN modulePromises

\* C27: completion clears the in-flight marker. Once a load of a name has
\* completed successfully, the name is in the loaded set and not in the
\* in-flight set; no name is in both sets, in either loader.
C27_CompletionClearsInFlight ==
    \A loader \in Loaders : \A name \in ModuleNames :
        /\ CompletedLoads(loader, name) # {}
              => name \in LoadedSet(loader) /\ name \notin InFlightSet(loader)
        /\ ~(name \in LoadedSet(loader) /\ name \in InFlightSet(loader))

\* C27 for LazyLoader alone, which deletes the marker on both paths
C27_LazyLoaderClears ==
    \A name \in ModuleNames :
        /\ CompletedLoads("LazyLoader", name) # {}
              => name \in loadedModules /\ name \notin DOMAIN loadingPromises
        /\ ~(name \in loadedModules /\ name \in DOMAIN loadingPromises)

\* a step that is a loadModule call of the loader for the name
IsLoadCall(loader, name) ==
    /\ Len(loadCalls') = Len(loadCalls) + 1
    /\ loadCalls'[Len(loadCalls')].loader = loader
    /\ loadCalls'[Len(loadCalls')].name = name

\* C28: completed loads are memoized. Once a load of a name has completed
\* successfully, every later loadModule call for the name, whatever loads of
\* other names are under way, returns at once and starts no underlying load.
C28_CompletedLoadsMemoized ==
    [][\A loader \in Loaders : \A name \in ModuleNames :
          (CompletedLoads(loader, name) # {} /\ IsLoadCall(loader, name))
          => /\ promises' = promises
             /\ loadCalls'[Len(loadCalls')].role = "cached"
             /\ loadCalls'[Len(loadCalls')].state = "fulfilled"
      ]_vars

\* a memoized call for one name was made while a load of the other name was
\* in flight
C28_Witness ==
    \E c \in 1..Len(loadCalls) :
        /\ loadCalls[c].role = "cached"
        /\ CompletedLoads(loadCalls[c].loader, loadCalls[c].name) # {}
        /\ \E p \in 1..Len(promises) :
              /\ promises[p].name # loadCalls[c].name
              /\ promises[p].loader = loadCalls[c].loader
              /\ promises[p].state = "pending"
              /\ \E c2 \in 1..(c - 1) : loadCalls[c2].promise = p


(***************************************************************************)
(* Properties of BatchProcessor: progress and the two paths.               *)
(***************************************************************************)
RECURSIVE ItemsInChunks(_, _)
\* how many items the first j chunks hold
ItemsInChunks(chunks, j) ==
    IF j = 0 THEN 0 ELSE Len(chunks[j]) + ItemsInChunks(chunks, j - 1)

\* how many chunks had their transform completed
ChunksCompleted == IF bPc \in {"awaitChunk", "rejected"} THEN bCalls - 1 ELSE bCalls

\* C29: chunks are processed strictly in sequence with progress reported per
\* chunk. With onProgress supplied, it has been invoked exactly once for each
\* chunk whose transform completed and for no other, so before the transform
\* of the next chunk starts; invocation j carries (j / total chunks, items
\* produced by the first j chunks), so the fraction strictly increases, and
\* it is total / total = 1 on the last invocation of a call that returned.
C29_ProgressPerChunk ==
    (bOnProgress /\ bPc # "idle" /\ Len(bChunks) > 0) =>
        /\ Len(bProgress) = ChunksCompleted
        /\ bCalls <= Len(bProgress) + 1
        /\ \A j \in 1..Len(bProgress) :
              /\ bProgress[j].done = j
              /\ bProgress[j].total = Len(bChunks)
              /\ bProgress[j].processed = ItemsInChunks(bChunks, j)
              /\ j > 1 => bProgress[j].done * bProgress[j - 1].total
                             > bProgress[j - 1].done * bProgress[j].total
        /\ bPc = "done" =>
              /\ Len(bProgress) = Len(bChunks)
              /\ bProgress[Len(bProgress)].done = bProgress[Len(bProgress)].total
              /\ bProgress[Len(bProgress)].processed = Len(bItems)

\* a processBatch call with onProgress over several chunks has returned
C29_Witness ==
    /\ bEntry = "processBatch" /\ bOnProgress /\ bPc = "done"
    /\ Len(bChunks) >= 3
    /\ Len(bProgress) = Len(bChunks)


\* C30: processLargeDataset returns the same result on both paths. An input
\* of more than 10,000 items goes through processBatch with chunks of 1,000
\* and a progress callback, an input of at most 10,000 items has the
\* transform applied once to the whole set, and either way the call returns
\* the transform of the whole input.
C30_SameResultOnBothPaths ==
    (bEntry = "processLargeDataset" /\ bPc = "done") =>
        /\ bOut = Processor(bItems)
        /\ Len(bItems) > 10000 =>
              /\ bChunks = CreateChunks(bItems, 1000)
              /\ bCalls = Len(bChunks)
              /\ bOnProgress
        /\ Len(bItems) <= 10000 =>
              /\ bCalls = 1
              /\ bChunks = <<>> /\ bYields = 0 /\ bProgress = <<>>

\* a processLargeDataset call on more than 10,000 items, not a multiple of
\* the chunk size, has returned
C30_Witness ==
    /\ bEntry = "processLargeDataset" /\ bPc = "done"
    /\ Len(bItems) > 10000 /\ Len(bItems) % 1000 # 0
    /\ bOut = Processor(bItems)


(***************************************************************************)
(* Properties of PerformanceMonitor.                                       *)
(***************************************************************************)
\* C25: startMonitoring and stopMonitoring keep a single sampler. After any
\* sequence of start and stop calls interleaved with frames, at most one
\* frame callback of monitorFPS is pending, and a rendered frame increments
\* frameCount at most once.
C25_SingleSampler ==
    /\ rafCallbacks <= 1
    /\ frameIncrements <= 1

\* C25 for starts alone: a start while monitoring changes nothing
C25_StartIdempotent ==
    [][(isMonitoring /\ monitorCalls' = monitorCalls + 1 /\ isMonitoring')
       => UNCHANGED <<rafCallbacks, memoryIntervals, frameCount, lastTime,
                      metricsFps, metricsMemory, fpsHistory>>
      ]_vars

\* C26: stopMonitoring stops all sampling. Once stopMonitoring has returned
\* and the frame callbacks requested before it have run, no memory timer is
\* active, and no step before the next startMonitoring changes metrics.fps,
\* metrics.memory or fpsHistory.
C26_StopStopsAllSampling ==
    [][(monitorCalls > 0 /\ ~isMonitoring /\ rafCallbacks = 0 /\ ~isMonitoring')
       => /\ memoryIntervals = 0
          /\ UNCHANGED <<metricsFps, metricsMemory, fpsHistory>>
      ]_vars

\* C26 for the frame sampler alone: while the flag is down no step changes
\* frameCount, metrics.fps or fpsHistory, and a frame leaves no callback
\* pending
C26_FrameSamplingStops ==
    [][(~isMonitoring /\ ~isMonitoring')
       => /\ UNCHANGED <<frameCount, lastTime, metricsFps, fpsHistory>>
          /\ frames' = frames + 1 => rafCallbacks' = 0
      ]_vars


(***************************************************************************)
(* Properties of the display cap.                                          *)
(***************************************************************************)
\* the elements of a sequence
Elements(q) == {q[k] : k \in 1..Len(q)}

\* C22: the sampling bound. For markers and clusters, an input of more
\* points than the cap is displayed as exactly cap points, all of them
\* points of the input; an input of at most cap points is displayed whole.
C22_SamplingBound ==
    sCalls > 0 =>
        IF Len(sPoints) > sMaxPoints
        THEN /\ Len(sDisplay) = sMaxPoints
             /\ Cardinality(Elements(sDisplay)) = sMaxPoints
             /\ Elements(sDisplay) \subseteq Elements(sPoints)
        ELSE sDisplay = sPoints

\* renderMarkers was called with more points than its cap
C22_Witness ==
    /\ sMethod = "renderMarkers"
    /\ sMaxPoints = 2 /\ Len(sPoints) = 6
    /\ Len(sDisplay) = 2

\* C23: down-sampling draws from the full input, not a prefix. When the
\* input exceeds the cap, each input point at an index >= cap is in the
\* array _samplePoints returns for some outcome of its random choices.
C23_DrawsFromFullInput ==
    (sCalls > 0 /\ Len(sPoints) > sMaxPoints) =>
        \A k \in (sMaxPoints + 1)..Len(sPoints) :
            \E out \in SamplePoints(sPoints, sMaxPoints) :
                sPoints[k] \in Elements(out)

\* what _samplePoints returns whatever the random choices: the first
\* maxPoints points
C23_OutputIsPrefix ==
    (sCalls > 0 /\ Len(sPoints) > sMaxPoints) =>
        /\ SamplePoints(sPoints, sMaxPoints) = {SubSeq(sPoints, 1, sMaxPoints)}
        /\ sDisplay = SubSeq(sPoints, 1, sMaxPoints)


(***************************************************************************)
(* Properties of the geofences.                                            *)
(***************************************************************************)
\* C24: geofence counts stay current. After every polygon creation, polygon
\* update and dataset load, the point count stored with each zone is the
\* number of points of the current dataset inside the polygon now drawn for
\* the zone.
C24_GeofenceCountsCurrent ==
    \A z \in 1..Len(geofenceZones) :
        geofenceZones[z].points
           = CountPointsInGeofence(geofenceZones[z].drawn, CurrentDataPoints)

\* C24 for creation alone: the zone just created carries the count of the
\* current dataset in its polygon
C24_CreateCounts ==
    [][Len(geofenceZones') = Len(geofenceZones) + 1
       => LET zone == geofenceZones'[Len(geofenceZones')] IN
          zone.points = CountPointsInGeofence(zone.drawn, CurrentDataPoints)
      ]_vars


(***************************************************************************)
(* Properties of generateMap: a failed request.                            *)
(***************************************************************************)
\* a step that is a generateMap call ending in an error, made while a map
\* was displayed
IsFailedGenerate ==
    /\ gCalls' = gCalls + 1
    /\ gOutcome' = "error"
    /\ gDisplayed = "map"

\* C21: on a dataset error the previous visualization stays. When the fetch
\* of generateMap fails or returns an error envelope while a map is
\* displayed, the call hands nothing to the map, and what the container
\* showed before the call it shows after it.
C21_PreviousVisualizationStays ==
    [][IsFailedGenerate
       => /\ ~gAttempted'
          /\ gPipeline' = gPipeline
          /\ gDisplayed' = gDisplayed
      ]_vars

\* C21 for FastMapApp and GeointMapApp, whose generateMap writes nothing
\* into the map container
C21_FastMapKeepsPrevious ==
    [][(IsFailedGenerate /\ gApp' \in {"FastMapApp", "GeointMapApp"})
       => /\ ~gAttempted'
          /\ gPipeline' = gPipeline
          /\ gDisplayed' = gDisplayed
      ]_vars


\* C32: the batch processor never runs more than 10 consecutive chunk
\* transforms without yielding. At every moment of a processBatch call at
\* most 10 transforms have started since the call began or since the last
\* yield to the host's timer queue resumed.
C32_YieldWithinTenChunks ==
    bSinceYield <= 10

\* a run of ten transforms that started after a yield
C32_Witness ==
    /\ bYields >= 1
    /\ bSinceYield = 10
    /\ bPc = "awaitChunk"


\* the last n elements of a sequence
LastOf(q, n) == IF Len(q) <= n THEN q ELSE SubSeq(q, Len(q) - n + 1, Len(q))

\* C33: the FPS sample ring is bounded. fpsHistory never holds more than 60
\* values; a step that takes a sample appends it and evicts the oldest value
\* if the ring was full, and no other step changes the ring, so the ring is
\* the most recent samples in arrival order; getMetrics reports avgFps 0 for
\* an empty ring.
C33_FpsRingBounded ==
    /\ [](Len(fpsHistory) <= 60)
    /\ [](fpsHistory = <<>> => AvgFps = 0)
    /\ [][\/ fpsHistory' = fpsHistory
          \/ fpsHistory' = LastOf(Append(fpsHistory, metricsFps'), 60)]_vars

\* three samples arrived at a ring of 59: the two oldest were evicted
C33_Witness ==
    /\ Len(fpsHistory) = 60
    /\ fpsHistory[1] = 3
    /\ fpsHistory[57] = 59
    /\ fpsHistory[60] = metricsFps


(***************************************************************************)
(* Properties of CacheManager: the frame of a set.                         *)
(***************************************************************************)
\* a getData(k) issued now would return the entry
DataVisible(k) ==
    k \in DOMAIN dataCache /\ Fresh(objTimestamp[dataCache[k]])

\* a step that is a setData call for the key
IsSetDataStep(k) ==
    /\ cacheOps' = cacheOps + 1
    /\ lastCacheOp'.op = "set"
    /\ lastCacheOp'.store = "data"
    /\ lastCacheOp'.key = k

\* C35: a set touches only its own key. setData(k2, v) leaves every other
\* key k1 as visible or invisible as it was, and leaves the expiry instant
\* of the entry of k1 unchanged, also when one value object is stored under
\* both keys.
C35_SetTouchesOnlyItsKey ==
    [][\A k2 \in CacheKeys :
          IsSetDataStep(k2) =>
             \A k1 \in CacheKeys \ {k2} :
                /\ DataVisible(k1)' <=> DataVisible(k1)
                /\ (k1 \in DOMAIN dataCache /\ k1 \in DOMAIN dataCache')
                      => ExpiryOf("data", k1)' = ExpiryOf("data", k1)
      ]_vars

\* C35 for sets of distinct value objects
C35_DistinctObjectsIndependent ==
    [][\A k2 \in CacheKeys :
          IsSetDataStep(k2) =>
             \A k1 \in CacheKeys \ {k2} :
                (k1 \in DOMAIN dataCache /\ dataCache[k1] # dataCache'[k2])
                => /\ DataVisible(k1)' <=> DataVisible(k1)
                   /\ k1 \in DOMAIN dataCache'
                         => ExpiryOf("data", k1)' = ExpiryOf("data", k1)
      ]_vars


(***************************************************************************)
(* Properties of ShaktiChatbot.                                            *)
(***************************************************************************)
\* C31: the context history is bounded. After any sequence of
\* updateStateSpace calls contextHistory holds at most 10 entries and
\* semanticMemory at most 20, and contextHistory is the most recent
\* exchanges (the last 10, or all if fewer) in the order they occurred.
C31_ContextHistoryBounded ==
    /\ Len(contextHistory) <= 10
    /\ Len(semanticMemory) <= 20
    /\ contextHistory = LastOf(exchanges, 10)

\* twelve exchanges were recorded, enough to overflow both lists
C31_Witness ==
    /\ Len(exchanges) = 12
    /\ Len(contextHistory) = 10
    /\ contextHistory[1].id = 3
    /\ Len(semanticMemory) = 20


\* C38: one chat exchange at a time. loading is true from the moment a
\* message is accepted until its reply (trained, from the API, or the error
\* message) has been appended: while a reply is pending loading is true, so
\* at most one reply is pending, and once none is pending loading is false.
C38_OneExchangeAtATime ==
    /\ pendingReplies # <<>> => loading
    /\ Len(pendingReplies) <= 1
    /\ pendingReplies = <<>> => ~loading

\* C38 for the component of part_000, which awaits the timer
C38_AwaitingComponent ==
    chatApp = "part_000" =>
        /\ loading <=> pendingReplies # <<>>
        /\ Len(pendingReplies) <= 1


\* C36: at most one map generation in flight. From the moment generateMap
\* starts its fetch until the fetch finished, the generate button stays
\* disabled, under every interleaving of clicks and data type change events,
\* so no second generateMap starts; once a generation finished the button is
\* enabled.
C36_OneGenerationInFlight ==
    /\ [](fetching # <<>> => generateBtnDisabled)
    /\ [](Len(fetching) <= 1)
    /\ [][Len(fetching') < Len(fetching) => ~generateBtnDisabled']_vars

\* C36, the part the code keeps: a finishing generation enables the button,
\* and a generation starts only from an enabled button
C36_FinishEnablesStartDisables ==
    /\ [][Len(fetching') < Len(fetching) => ~generateBtnDisabled']_vars
    /\ [][Len(fetching') > Len(fetching)
            => ~generateBtnDisabled /\ generateBtnDisabled']_vars


\* C37: the tile cache is bounded. After any sequence of get and put calls,
\* gets that delete an expired entry included, the cache holds at most
\* TILE_CACHE_LIMIT entries and accessOrder lists exactly the keys present
\* in the cache, each once.
C37_TileCacheBounded ==
    /\ Cardinality(DOMAIN tileCacheMap) <= TILE_CACHE_LIMIT
    /\ Elements(accessOrder) = DOMAIN tileCacheMap
    /\ Len(accessOrder) = Cardinality(DOMAIN tileCacheMap)

\* C37, the part the code keeps: every key present in the cache is listed in
\* accessOrder, and no key is listed twice
C37_PresentKeysListedOnce ==
    /\ DOMAIN tileCacheMap \subseteq Elements(accessOrder)
    /\ Len(accessOrder) = Cardinality(Elements(accessOrder))

\* C37: the size bound alone
C37_SizeBound == Cardinality(DOMAIN tileCacheMap) <= TILE_CACHE_LIMIT


\* the timestamp the path carries for the point of input index i
PathTimestamp(i) ==
    (CHOOSE p \in Elements(sortedPoints) : p.id = i).timestamp
\* the input indices in the order the path visits them
PathOrder == [k \in 1..Len(sortedPoints) |-> sortedPoints[k].id]
HasNoTimestamp(i) == trajectoryInput[i] = NoTimestamp

C34_WitnessNoTimestamps ==
    /\ trajectoryInput = <<NoTimestamp, NoTimestamp, NoTimestamp>>
    /\ PathOrder = <<1, 2, 3>>

=============================================================================
